---- MODULE Spec2Model ----
(***************************************************************************)
(* product-service: the bounded event queue (pkg/queue), the circuit       *)
(* breaker (pkg/circuitbreaker), the retry executor (pkg/retry), the        *)
(* service with its worker pool and controller (internal/services,          *)
(* internal/controllers) and the batch processor (pkg/queue) as state       *)
(* machines, each with a specification of its own; the service composes     *)
(* the queue, the breaker and the retry loop.                               *)
(*                                                                         *)
(* The queue is a Go buffered channel: Enqueue is a non-blocking send      *)
(* (select with default), Dequeue a blocking receive, Close closes the     *)
(* channel.  The channel operations are atomic (the runtime takes the      *)
(* channel lock), so each call is one action; a receive that finds an open *)
(* empty channel parks the consumer, and a later send or close wakes it.   *)
(***************************************************************************)
EXTENDS Integers, Sequences, FiniteSets, TLC

\* ---------------------------------------------------------------- bounds
MaxCap == 2
MaxEvents == 4
NumProducers == 2
NumConsumers == 2

MaxThreshold == 2
MaxTimeout == 2
MaxTime == 3
NumCallers == 2
MaxCalls == 3

MaxRetryAttempts == 3
MaxDuration == 3

NumWorkers == 1
NumProducts == 2
MaxPosts == 3

MaxBatchSize == 2
MaxAdds == 11
MaxLateAdds == 3

\* AddEvent calls made when every lock and unlock is a step of its own
MaxLockedAdds == 2

\* requests made after the first MaxPosts, while the queue has free capacity
MaxLatePosts == 1

Producers == 1..NumProducers
Consumers == 1..NumConsumers
Capacities == 0..MaxCap
Callers == 1..NumCallers
Thresholds == 1..MaxThreshold
Timeouts == 0..MaxTimeout
AttemptLimits == -1..MaxRetryAttempts
Durations == 0..MaxDuration

VARIABLES
  \* InMemoryEventQueue.events: the channel
  capacity,     \* cap(q.events), fixed by NewInMemoryEventQueue
  events,       \* the channel's buffer, oldest first
  closed,       \* close(q.events) has run
  waiting,      \* consumers parked in Dequeue
  \* what the callers have seen
  nextId,       \* the next event a producer submits (events are distinct)
  deqRes,       \* per consumer: the last (event, ok) Dequeue returned
  qOp,          \* the queue call that made the last step, with the state before
  enqueued,     \* the events whose Enqueue returned nil, in the order they took effect
  delivered,    \* the (event, consumer) pairs Dequeue returned with ok = true, in order
  streak,       \* successful Enqueues since the queue was empty and open with no Dequeue; -1: none
  atClose,      \* the buffer at the moment of Close
  okAfterClose, \* events returned with ok = true since Close, in order
  falseAfterClose, \* some Dequeue has reported ok = false since Close
  okAfterFalse, \* an ok = true return came after an ok = false return
  \* CircuitBreaker
  failureThreshold, \* cb.failureThreshold
  timeout,      \* cb.timeout
  state,        \* cb.state
  failures,     \* cb.failures
  lastFailureTime, \* cb.lastFailureTime
  mutex,        \* cb.mutex: the caller holding the write lock, 0 when free
  now,          \* the clock time.Now() reads
  cbPc,         \* per caller: idle, lock (in mutex.Lock()), op (running the operation)
  cbRes,        \* per caller: what the last Execute returned
  calls,        \* Execute calls made
  opCalls,      \* operations invoked
  consec,       \* failing operations run since the last success or Reset
  probeFailed,  \* the breaker is Open because a Half-Open probe failed
  observed,     \* what the last GetState returned
  afterReset,   \* the state Reset found, until the next Execute takes the lock; "no" otherwise
  cbOp,         \* the breaker step made last, with the state before
  \* RetryConfig and one call of ExecuteWithRetry / ExecuteWithRetryAndCallback
  rMaxAttempts, \* r.MaxAttempts
  rInitialDelay, \* r.InitialDelay
  rMaxDelay,    \* r.MaxDelay
  rMultiplier,  \* r.Multiplier, in halves (2 is 1.0, 3 is 1.5, 4 is 2.0)
  rVariant,     \* "plain": ExecuteWithRetry, "callback": ExecuteWithRetryAndCallback
  rOnFailure,   \* onFailure != nil
  rPc,          \* where the call is: loop, op, callback, last, sleep, done
  attempt,      \* the loop variable
  delay,        \* the local delay
  rLog,         \* what the call did so far: operations, callbacks and sleeps, in order
  rResult,      \* what the call returned
  \* ProductService, WorkerPool, ProductController and the repository
  workers,      \* wp.workers
  cancelled,    \* wp.cancel() has run: wp.ctx.Done() is closed
  wg,           \* wp.wg: the WaitGroup counter
  stopPc,       \* Stop: no (not called), waiting (in wg.Wait()), returned
  sPc,          \* per goroutine: idle, try, op (requests); new, select, dequeue, parked, woken, try, op, exited (workers)
  sAttempt,     \* per goroutine: attempt of its retry loop
  sDelay,       \* per goroutine: delay of its retry loop
  sEvent,       \* per goroutine: the event it is submitting or processing
  hStatus,      \* per request goroutine: the status HandleEvent answered last
  store,        \* the repository: per product id what Update wrote last, 0 if absent
  accepted,     \* the events for which ProcessEvent returned nil
  refused,      \* the events for which ProcessEvent returned an error
  written,      \* the events a worker passed to repository.Update
  dropped,      \* the events whose processEvent ended in the final failure
  lateWork,     \* a worker dequeued or updated after Stop had returned
  \* BatchProcessor
  batchSize,    \* bp.batchSize
  bpEvents,     \* bp.events: the buffer
  flushChan,    \* bp.flushChan: the batches handed over and not yet received, oldest first
  stopChan,     \* bp.stopChan is closed
  bpLoop,       \* the processBatches goroutine: running, exited
  bpNextId,     \* the next event a caller adds (events are distinct)
  processed,    \* the batches bp.processor was called with, in order
  flushLog,     \* every flush so far: who made it, the batch, whether the channel took it
  sinceEmpty,   \* the events added since the buffer was last empty
  adds,         \* AddEvent calls so far
  bpOp,         \* the step made last, with the state before
  \* BatchProcessor, step by step
  bpMutex,      \* bp.mutex: free, or the goroutine that holds it
  addPc,        \* per AddEvent caller: idle, lock (in Lock), locked (holds the mutex)
  inHandler     \* the invocations of bp.processor in progress

qvars == <<capacity, events, closed, waiting, nextId, deqRes, qOp, enqueued,
           delivered, streak, atClose, okAfterClose, falseAfterClose, okAfterFalse>>

cbvars == <<failureThreshold, timeout, state, failures, lastFailureTime, mutex,
            now, cbPc, cbRes, calls, opCalls, consec, probeFailed, observed,
            afterReset, cbOp>>

rvars == <<rMaxAttempts, rInitialDelay, rMaxDelay, rMultiplier, rVariant,
           rOnFailure, rPc, attempt, delay, rLog, rResult>>

svars == <<workers, cancelled, wg, stopPc, sPc, sAttempt, sDelay, sEvent,
           hStatus, store, accepted, refused, written, dropped, lateWork>>

bvars == <<batchSize, bpEvents, flushChan, stopChan, bpLoop, bpNextId,
           processed, flushLog, sinceEmpty, adds, bpOp>>

lvars == <<bpMutex, addPc, inHandler>>

vars == <<qvars, cbvars, rvars, svars, bvars, lvars>>

\* what the queue's operations leave alone
notQueue == <<cbvars, rvars, svars, bvars, lvars>>

\* what the breaker's operations leave alone
notBreaker == <<qvars, rvars, svars, bvars, lvars>>

\* what a retry call leaves alone
notRetry == <<qvars, cbvars, svars, bvars, lvars>>

\* what the service leaves alone besides the queue and breaker history
notService == <<rvars, bvars, lvars>>

\* what the batch processor leaves alone
notBatch == <<qvars, cbvars, rvars, svars>>

\* ---------------------------------------------------------------- the queue

NoEvent == 0

\* the zero value Dequeue returns with ok = false
NoResult == [ev |-> NoEvent, ok |-> FALSE, any |-> FALSE]

\* NewInMemoryEventQueue: make(chan models.ProductEvent, bufferSize)
NewInMemoryEventQueue(bufferSize) ==
  /\ capacity = bufferSize
  /\ events = <<>>
  /\ closed = FALSE
  /\ waiting = {}

\* a send on a closed channel panics, also inside a select with a default case
SendPanics == closed

HasRoomOffByOne == Len(events) <= capacity

\* the send case of the select can proceed into the buffer
HasRoom == Len(events) < capacity

ReceiverIgnored == FALSE

\* a consumer is parked in the receive: the send hands the event over to it
ReceiverParked == waiting # {}

BlocksNever == FALSE

\* `event, ok := <-q.events` parks the caller: nothing buffered, channel open
ReceiveBlocks == events = <<>> /\ ~closed

RestKeepsHead == events

\* the buffer after a receive took its oldest event
RestAfterReceive == Tail(events)

BufferDroppedByClose == <<>>

\* close(q.events) leaves the buffered events in the channel
BufferAfterClose == events

QOp(op, who, arg, res, got) ==
  [op |-> op, who |-> who, arg |-> arg, res |-> res, got |-> got,
   pre |-> events, preClosed |-> closed, preWaiting |-> waiting,
   preStreak |-> streak]

\* the streak after a step that left the queue in the primed state
StreakAfter(buffered, failed) ==
  IF buffered /\ streak >= 0 THEN streak + 1
  ELSE IF failed THEN streak
  ELSE IF events' = <<>> /\ waiting' = {} /\ ~closed' THEN 0
  ELSE -1

CloseHistoryUnchanged ==
  UNCHANGED <<atClose, okAfterClose, falseAfterClose, okAfterFalse>>

\* a Dequeue returned (ev, TRUE)
NoteOk(ev) ==
  /\ okAfterClose' = IF closed' THEN Append(okAfterClose, ev) ELSE okAfterClose
  /\ okAfterFalse' = (okAfterFalse \/ (closed' /\ falseAfterClose))
  /\ UNCHANGED <<atClose, falseAfterClose>>

\* a Dequeue returned (zero, FALSE)
NoteFalse ==
  /\ falseAfterClose' = TRUE
  /\ UNCHANGED <<atClose, okAfterClose, okAfterFalse>>

\* Enqueue: select { case q.events <- event: return nil; default: "queue is full" }
Enqueue(p) ==
  /\ nextId <= MaxEvents
  /\ nextId' = nextId + 1
  /\ UNCHANGED notQueue
  /\ UNCHANGED <<capacity, closed>>
  /\ CloseHistoryUnchanged
  /\ IF SendPanics
     THEN /\ qOp' = QOp("Enqueue", p, nextId, "panic", NoEvent)
          /\ UNCHANGED <<events, waiting, deqRes, enqueued, delivered, streak>>
     ELSE IF ReceiverParked
     THEN \E c \in waiting :
          /\ waiting' = waiting \ {c}
          /\ deqRes' = [deqRes EXCEPT ![c] = [ev |-> nextId, ok |-> TRUE, any |-> TRUE]]
          /\ enqueued' = Append(enqueued, nextId)
          /\ delivered' = Append(delivered, [ev |-> nextId, to |-> c])
          /\ qOp' = QOp("Enqueue", p, nextId, "ok", NoEvent)
          /\ UNCHANGED events
          /\ streak' = StreakAfter(FALSE, FALSE)
     ELSE IF HasRoom
     THEN /\ events' = Append(events, nextId)
          /\ enqueued' = Append(enqueued, nextId)
          /\ qOp' = QOp("Enqueue", p, nextId, "ok", NoEvent)
          /\ UNCHANGED <<waiting, deqRes, delivered>>
          /\ streak' = StreakAfter(TRUE, FALSE)
     ELSE /\ qOp' = QOp("Enqueue", p, nextId, "full", NoEvent)
          /\ UNCHANGED <<events, waiting, deqRes, enqueued, delivered>>
          /\ streak' = StreakAfter(FALSE, TRUE)

\* Dequeue: event, ok := <-q.events
Dequeue(c) ==
  /\ c \notin waiting
  /\ UNCHANGED notQueue
  /\ UNCHANGED <<capacity, closed, nextId, enqueued>>
  /\ IF events # <<>>
     THEN /\ events' = RestAfterReceive
          /\ deqRes' = [deqRes EXCEPT ![c] = [ev |-> Head(events), ok |-> TRUE, any |-> TRUE]]
          /\ delivered' = Append(delivered, [ev |-> Head(events), to |-> c])
          /\ qOp' = QOp("Dequeue", c, NoEvent, "ok", Head(events))
          /\ UNCHANGED waiting
          /\ NoteOk(Head(events))
     ELSE IF ReceiveBlocks
     THEN /\ waiting' = waiting \cup {c}
          /\ qOp' = QOp("Dequeue", c, NoEvent, "blocked", NoEvent)
          /\ UNCHANGED <<events, deqRes, delivered>>
          /\ CloseHistoryUnchanged
     ELSE /\ deqRes' = [deqRes EXCEPT ![c] = [ev |-> NoEvent, ok |-> FALSE, any |-> TRUE]]
          /\ qOp' = QOp("Dequeue", c, NoEvent, "false", NoEvent)
          /\ UNCHANGED <<events, waiting, delivered>>
          /\ NoteFalse
  /\ streak' = StreakAfter(FALSE, FALSE)

\* Close: close(q.events); a second close panics; parked consumers wake with ok = false
Close ==
  /\ UNCHANGED notQueue
  /\ UNCHANGED <<capacity, nextId, enqueued, delivered>>
  /\ IF closed
     THEN /\ qOp' = QOp("Close", 0, NoEvent, "panic", NoEvent)
          /\ UNCHANGED <<events, closed, waiting, deqRes, streak>>
          /\ CloseHistoryUnchanged
     ELSE /\ closed' = TRUE
          /\ events' = BufferAfterClose
          /\ atClose' = events
          /\ waiting' = {}
          /\ deqRes' = [c \in Consumers |->
                          IF c \in waiting
                          THEN [ev |-> NoEvent, ok |-> FALSE, any |-> TRUE]
                          ELSE deqRes[c]]
          /\ falseAfterClose' = (waiting # {})
          /\ UNCHANGED <<okAfterClose, okAfterFalse>>
          /\ qOp' = QOp("Close", 0, NoEvent, "ok", NoEvent)
          /\ streak' = -1

QHistoryInit ==
  /\ nextId = 1
  /\ deqRes = [c \in Consumers |-> NoResult]
  /\ qOp = [op |-> "New", who |-> 0, arg |-> NoEvent, res |-> "ok", got |-> NoEvent,
            pre |-> <<>>, preClosed |-> FALSE, preWaiting |-> {}, preStreak |-> 0]
  /\ enqueued = <<>>
  /\ delivered = <<>>
  /\ streak = 0
  /\ atClose = <<>>
  /\ okAfterClose = <<>>
  /\ falseAfterClose = FALSE
  /\ okAfterFalse = FALSE

QNext ==
  \/ \E p \in Producers : Enqueue(p)
  \/ \E c \in Consumers : Dequeue(c)
  \/ Close

\* ---------------------------------------------------------------- the circuit breaker

\* the zero time.Time of a breaker that has recorded no failure
ZeroTime == -1

\* NewCircuitBreaker(failureThreshold, timeout)
NewCircuitBreaker(threshold, openTimeout) ==
  /\ failureThreshold = threshold
  /\ timeout = openTimeout
  /\ state = "Closed"
  /\ failures = 0
  /\ lastFailureTime = ZeroTime
  /\ mutex = 0

\* time.Since(cb.lastFailureTime); since the zero time it exceeds every timeout
Since ==
  IF lastFailureTime = ZeroTime THEN MaxTime + MaxTimeout + 1
  ELSE now - lastFailureTime

RejectsAfterAnyFailure == failures > 0

\* Execute: cb.state == Open && time.Since(cb.lastFailureTime) < cb.timeout
RejectsWhileOpen == state = "Open" /\ Since < timeout

RefreshedByReject == now

\* the rejecting return leaves cb.lastFailureTime alone
LastFailureAfterReject == lastFailureTime

LockDroppedBeforeOperation(c) == 0

\* Execute holds cb.mutex (defer Unlock) while the operation runs
MutexDuringOperation(c) == c

StateKeptOnEnter == state

\* Execute: an Open breaker whose timeout has passed moves to Half-Open
StateOnEnter == IF state = "Open" THEN "HalfOpen" ELSE state

\* recordFailure: cb.failures++
FailuresAfterFailure == failures + 1

StateAfterFailureLate ==
  IF FailuresAfterFailure > failureThreshold THEN "Open" ELSE state

\* recordFailure: if cb.failures >= cb.failureThreshold { cb.state = Open }
StateAfterFailure ==
  IF FailuresAfterFailure >= failureThreshold THEN "Open" ELSE state

\* recordSuccess: if cb.state == HalfOpen { cb.state = Closed }
StateAfterSuccess == IF state = "HalfOpen" THEN "Closed" ELSE state

FailuresKeptBySuccess == failures

\* recordSuccess: cb.failures = 0
FailuresAfterSuccess == 0

CbOp(op, who, ok, rejected) ==
  [op |-> op, who |-> who, ok |-> ok, rejected |-> rejected,
   pre |-> [state |-> state, failures |-> failures, lft |-> lastFailureTime,
            now |-> now, opCalls |-> opCalls, probeFailed |-> probeFailed,
            since |-> Since, afterReset |-> afterReset]]

CbConfigUnchanged == UNCHANGED <<failureThreshold, timeout>>

\* time passes
Tick ==
  /\ now < MaxTime
  /\ now' = now + 1
  /\ cbOp' = CbOp("Tick", 0, FALSE, FALSE)
  /\ CbConfigUnchanged
  /\ UNCHANGED <<state, failures, lastFailureTime, mutex, cbPc, cbRes, calls,
                 opCalls, consec, probeFailed, observed, afterReset>>
  /\ UNCHANGED notBreaker

\* a caller calls Execute and reaches cb.mutex.Lock()
CallExecute(c) ==
  /\ cbPc[c] = "idle"
  /\ calls < MaxCalls
  /\ calls' = calls + 1
  /\ cbPc' = [cbPc EXCEPT ![c] = "lock"]
  /\ cbOp' = CbOp("Call", c, FALSE, FALSE)
  /\ CbConfigUnchanged
  /\ UNCHANGED <<state, failures, lastFailureTime, mutex, now, cbRes, opCalls,
                 consec, probeFailed, observed, afterReset>>
  /\ UNCHANGED notBreaker

\* Execute, from the Lock to the call of the operation (or the rejecting return)
Enter(c) ==
  /\ cbPc[c] = "lock"
  /\ mutex = 0
  /\ CbConfigUnchanged
  /\ UNCHANGED <<failures, now, calls, consec, observed>>
  /\ UNCHANGED notBreaker
  /\ afterReset' = "no"
  /\ IF RejectsWhileOpen
     THEN /\ cbRes' = [cbRes EXCEPT ![c] = "open"]
          /\ cbPc' = [cbPc EXCEPT ![c] = "idle"]
          /\ lastFailureTime' = LastFailureAfterReject
          /\ cbOp' = CbOp("Enter", c, FALSE, TRUE)
          /\ UNCHANGED <<state, mutex, opCalls, probeFailed>>
     ELSE /\ state' = StateOnEnter
          /\ mutex' = MutexDuringOperation(c)
          /\ cbPc' = [cbPc EXCEPT ![c] = "op"]
          /\ opCalls' = opCalls + 1
          /\ probeFailed' = (probeFailed /\ state # "Open")
          /\ cbOp' = CbOp("Enter", c, FALSE, FALSE)
          /\ UNCHANGED <<lastFailureTime, cbRes>>

\* recordFailure
recordFailure ==
  /\ failures' = FailuresAfterFailure
  /\ lastFailureTime' = now
  /\ state' = StateAfterFailure

\* recordSuccess
recordSuccess ==
  /\ state' = StateAfterSuccess
  /\ failures' = FailuresAfterSuccess
  /\ UNCHANGED lastFailureTime

\* Execute, from the operation's return to the deferred Unlock
OpReturn(c, ok) ==
  /\ cbPc[c] = "op"
  /\ IF ok
     THEN /\ recordSuccess
          /\ consec' = 0
          /\ probeFailed' = FALSE
     ELSE /\ recordFailure
          /\ consec' = consec + 1
          /\ probeFailed' = (state = "HalfOpen")
  /\ mutex' = 0
  /\ cbPc' = [cbPc EXCEPT ![c] = "idle"]
  /\ cbRes' = [cbRes EXCEPT ![c] = IF ok THEN "ok" ELSE "fail"]
  /\ cbOp' = CbOp("OpReturn", c, ok, FALSE)
  /\ CbConfigUnchanged
  /\ UNCHANGED <<now, calls, opCalls, observed, afterReset>>
  /\ UNCHANGED notBreaker

\* GetState: reads cb.state under the read lock
GetState ==
  /\ mutex = 0
  /\ observed' = state
  /\ cbOp' = CbOp("GetState", 0, FALSE, FALSE)
  /\ CbConfigUnchanged
  /\ UNCHANGED <<state, failures, lastFailureTime, mutex, now, cbPc, cbRes,
                 calls, opCalls, consec, probeFailed, afterReset>>
  /\ UNCHANGED notBreaker

StateKeptByReset == state

\* Reset: cb.state = Closed
StateAfterReset == "Closed"

\* Reset: cb.state = Closed; cb.failures = 0
Reset ==
  /\ mutex = 0
  /\ state' = StateAfterReset
  /\ failures' = 0
  /\ afterReset' = state
  /\ consec' = 0
  /\ probeFailed' = FALSE
  /\ cbOp' = CbOp("Reset", 0, FALSE, FALSE)
  /\ CbConfigUnchanged
  /\ UNCHANGED <<lastFailureTime, mutex, now, cbPc, cbRes, calls, opCalls,
                 observed>>
  /\ UNCHANGED notBreaker

CBHistoryInit ==
  /\ now = 0
  /\ cbPc = [c \in Callers |-> "idle"]
  /\ cbRes = [c \in Callers |-> "none"]
  /\ calls = 0
  /\ opCalls = 0
  /\ consec = 0
  /\ probeFailed = FALSE
  /\ observed = "Closed"
  /\ afterReset = "no"
  /\ cbOp = [op |-> "New", who |-> 0, ok |-> FALSE, rejected |-> FALSE,
             pre |-> [state |-> "Closed", failures |-> 0, lft |-> ZeroTime,
                      now |-> 0, opCalls |-> 0, probeFailed |-> FALSE,
                      since |-> MaxTime + MaxTimeout + 1, afterReset |-> "no"]]

CBNext ==
  \/ Tick
  \/ \E c \in Callers : CallExecute(c)
  \/ \E c \in Callers : Enter(c)
  \/ \E c \in Callers, ok \in BOOLEAN : OpReturn(c, ok)
  \/ GetState
  \/ Reset

\* ---------------------------------------------------------------- retry

\* the denominator of rMultiplier
MultiplierUnit == 2

Multipliers == {MultiplierUnit, MultiplierUnit + 1, 2 * MultiplierUnit}

\* DefaultRetryConfig / a RetryConfig literal
NewRetryConfig(maxAttempts, initialDelay, maxDelay, multiplier) ==
  /\ rMaxAttempts = maxAttempts
  /\ rInitialDelay = initialDelay
  /\ rMaxDelay = maxDelay
  /\ rMultiplier = multiplier

\* delay := r.InitialDelay; attempt := 1
RetryEntry ==
  /\ rPc = "loop"
  /\ attempt = 1
  /\ delay = rInitialDelay
  /\ rLog = <<>>
  /\ rResult = "none"

\* time.Duration(float64(d) * r.Multiplier): the product, truncated
Scaled(d) == (d * rMultiplier) \div MultiplierUnit

\* delay = time.Duration(float64(delay) * r.Multiplier); if delay > r.MaxDelay { delay = r.MaxDelay }
NextDelay(d) == IF Scaled(d) > rMaxDelay THEN rMaxDelay ELSE Scaled(d)

LoopStopsOneEarly == attempt < rMaxAttempts

\* for attempt := 1; attempt <= r.MaxAttempts; attempt++
LoopContinues == attempt <= rMaxAttempts

\* if attempt == r.MaxAttempts { return "operation failed after N attempts" }
IsLastAttempt == attempt = rMaxAttempts

CallbackSkippedOnLast == rVariant = "callback" /\ rOnFailure /\ ~IsLastAttempt

\* ExecuteWithRetryAndCallback: if onFailure != nil { onFailure(attempt, ...) }
CallsOnFailure == rVariant = "callback" /\ rOnFailure

Logged(what, n, ok) == Append(rLog, [what |-> what, n |-> n, ok |-> ok])

RetryConfigUnchanged ==
  UNCHANGED <<rMaxAttempts, rInitialDelay, rMaxDelay, rMultiplier, rVariant, rOnFailure>>

\* the loop test; falling out of the loop returns nil
RetryLoop ==
  /\ rPc = "loop"
  /\ IF LoopContinues
     THEN rPc' = "op" /\ UNCHANGED rResult
     ELSE rPc' = "done" /\ rResult' = "nil"
  /\ RetryConfigUnchanged
  /\ UNCHANGED <<attempt, delay, rLog>>
  /\ UNCHANGED notRetry

\* err := operation(); nil returns nil at once
RetryOperation(ok) ==
  /\ rPc = "op"
  /\ rLog' = Logged("op", attempt, ok)
  /\ IF ok
     THEN rPc' = "done" /\ rResult' = "nil"
     ELSE rPc' = "callback" /\ UNCHANGED rResult
  /\ RetryConfigUnchanged
  /\ UNCHANGED <<attempt, delay>>
  /\ UNCHANGED notRetry

\* the onFailure call of ExecuteWithRetryAndCallback
RetryCallback ==
  /\ rPc = "callback"
  /\ rLog' = IF CallsOnFailure THEN Logged("callback", attempt, FALSE) ELSE rLog
  /\ rPc' = "last"
  /\ RetryConfigUnchanged
  /\ UNCHANGED <<attempt, delay, rResult>>
  /\ UNCHANGED notRetry

\* the exhaustion test after a failed attempt
RetryLast ==
  /\ rPc = "last"
  /\ IF IsLastAttempt
     THEN rPc' = "done" /\ rResult' = "exhausted"
     ELSE rPc' = "sleep" /\ UNCHANGED rResult
  /\ RetryConfigUnchanged
  /\ UNCHANGED <<attempt, delay, rLog>>
  /\ UNCHANGED notRetry

\* time.Sleep(delay), the next delay, attempt++
RetrySleep ==
  /\ rPc = "sleep"
  /\ rLog' = Logged("sleep", delay, FALSE)
  /\ delay' = NextDelay(delay)
  /\ attempt' = attempt + 1
  /\ rPc' = "loop"
  /\ RetryConfigUnchanged
  /\ UNCHANGED rResult
  /\ UNCHANGED notRetry

\* no retry call is modelled
RetryUnused ==
  /\ NewRetryConfig(1, 0, 0, MultiplierUnit)
  /\ rVariant = "plain"
  /\ rOnFailure = FALSE
  /\ RetryEntry

RetryNext ==
  \/ RetryLoop
  \/ \E ok \in BOOLEAN : RetryOperation(ok)
  \/ RetryCallback
  \/ RetryLast
  \/ RetrySleep

\* ---------------------------------------------------------------- the service

\* NewProductService: circuitbreaker.NewCircuitBreaker(5, 60*time.Second)
ServiceFailureThreshold == 5

\* the breaker's timeout of 60 s, in ticks of the clock `now` (one minute)
ServiceBreakerTimeout == 1

\* DefaultRetryConfig: MaxAttempts 3
DefaultMaxAttempts == 3

\* DefaultRetryConfig: InitialDelay 100 ms, in units of 100 ms
DefaultInitialDelay == 1

\* DefaultRetryConfig: MaxDelay 30 s, in units of 100 ms
DefaultMaxDelay == 300

\* NewMockEventQueue(10) / NewInMemoryEventQueue(10) of the service tests
TestQueueSize == 10

\* the HTTP statuses HandleEvent answers with
StatusAccepted == 202
StatusBadRequest == 400
StatusServiceUnavailable == 503

\* what gin.Recovery answers when a handler panics
StatusInternalServerError == 500

\* the goroutines: the one serving requests (they arrive one after the other)
\* and the workers
Handlers == {NumWorkers + 1}
Workers == 1..NumWorkers
Procs == Handlers \cup Workers
Products == 1..NumProducts
WorkerCounts == 1..NumWorkers
QueueSizes == {1, TestQueueSize}

\* a models.ProductEvent: the product id and, for price and stock, the number of the request that carried them
ProductEvent(product, seq) == [product |-> product, seq |-> seq]

NoProductEvent == ProductEvent(0, 0)

\* the product id of the n-th valid request: the requests name the products in turn
ProductOf(n) == ((n - 1) % NumProducts) + 1

\* DefaultRetryConfig
DefaultRetryConfig ==
  NewRetryConfig(DefaultMaxAttempts, DefaultInitialDelay, DefaultMaxDelay,
                 2 * MultiplierUnit)

\* NewProductService / NewWorkerPool: nothing started, nothing cancelled
NewProductService(n) ==
  /\ workers = n
  /\ cancelled = FALSE
  /\ wg = 0
  /\ stopPc = "no"
  /\ sPc = [p \in Procs |-> IF p \in Handlers THEN "idle" ELSE "new"]
  /\ sAttempt = [p \in Procs |-> 0]
  /\ sDelay = [p \in Procs |-> 0]
  /\ sEvent = [p \in Procs |-> NoProductEvent]
  /\ hStatus = [h \in Handlers |-> 0]
  /\ store = [product \in Products |-> 0]
  /\ accepted = {}
  /\ refused = {}
  /\ written = {}
  /\ dropped = {}
  /\ lateWork = FALSE

\* the workers wp.Start launches: i < wp.workers
Launched == {w \in Workers : w <= workers}

\* the queue, breaker and retry history the service does not keep
SvcQueueHistoryUnchanged ==
  UNCHANGED <<capacity, deqRes, qOp, streak, atClose, okAfterClose,
              falseAfterClose, okAfterFalse>>

SvcBreakerHistoryUnchanged ==
  UNCHANGED <<failureThreshold, timeout, now, cbPc, cbRes, calls, opCalls,
              consec, probeFailed, observed, afterReset, cbOp>>

SvcBreakerUnchanged ==
  /\ UNCHANGED <<state, failures, lastFailureTime, mutex>>
  /\ SvcBreakerHistoryUnchanged

SvcQueueUnchanged ==
  /\ UNCHANGED <<events, closed, waiting, nextId, enqueued, delivered>>
  /\ SvcQueueHistoryUnchanged

\* ExecuteWithRetry: if attempt == r.MaxAttempts
AttemptIsLast(p) == sAttempt[p] = rMaxAttempts

\* the process begins a retry call for event e: attempt := 1, delay := r.InitialDelay
Begun(pc, att, del, ev, p, e) ==
  /\ sPc' = [pc EXCEPT ![p] = "try"]
  /\ sAttempt' = [att EXCEPT ![p] = 1]
  /\ sDelay' = [del EXCEPT ![p] = rInitialDelay]
  /\ sEvent' = [ev EXCEPT ![p] = e]

\* after a failed attempt that is not the last: time.Sleep(delay), the next delay, attempt++
Retried(p) ==
  /\ sPc' = [sPc EXCEPT ![p] = "try"]
  /\ sAttempt' = [sAttempt EXCEPT ![p] = sAttempt[p] + 1]
  /\ sDelay' = [sDelay EXCEPT ![p] = NextDelay(sDelay[p])]
  /\ UNCHANGED sEvent

\* the call returns: a handler is idle again, a worker goes back to its select
Returned(p) ==
  /\ sPc' = [sPc EXCEPT ![p] = IF p \in Handlers THEN "idle" ELSE "select"]
  /\ UNCHANGED <<sAttempt, sDelay, sEvent>>

EventKeptAfterExhaustion(p) == {}

\* processEvent: the final failure is logged and the event is gone
EventDroppedAfterExhaustion(p) == {sEvent[p].seq}

StatusOnErrorAccepted == StatusAccepted

\* HandleEvent: ProcessEvent returned an error
StatusOnError == StatusServiceUnavailable

\* an attempt of p failed (the operation's error or "circuit breaker is open"):
\* retry, or give up: ProcessEvent returns the error and HandleEvent answers
\* 503; processEvent logs and drops the event
AttemptFailed(p) ==
  IF AttemptIsLast(p)
  THEN /\ Returned(p)
       /\ IF p \in Handlers
          THEN /\ hStatus' = [hStatus EXCEPT ![p] = StatusOnError]
               /\ refused' = refused \cup {sEvent[p].seq}
               /\ UNCHANGED dropped
          ELSE /\ dropped' = dropped \cup EventDroppedAfterExhaustion(p)
               /\ UNCHANGED <<hStatus, refused>>
  ELSE /\ Retried(p)
       /\ UNCHANGED <<hStatus, refused, dropped>>

\* ProductService.Start / WorkerPool.Start: wg.Add(1); go wp.worker(i)
Start ==
  /\ stopPc = "no"
  /\ \A w \in Workers : sPc[w] = "new"
  /\ sPc' = [p \in Procs |-> IF p \in Launched THEN "select" ELSE sPc[p]]
  /\ wg' = wg + workers
  /\ UNCHANGED <<workers, cancelled, stopPc, sAttempt, sDelay, sEvent, hStatus,
                 store, accepted, refused, written, dropped, lateWork>>
  /\ SvcQueueUnchanged
  /\ SvcBreakerUnchanged
  /\ UNCHANGED notService

\* HandleEvent up to the call of ProcessEvent: a payload that does not bind or
\* has no product_id is answered 400; ProcessEvent enters ExecuteWithRetry
HandleEventCall(h, valid) ==
  /\ sPc[h] = "idle"
  /\ IF valid
     THEN /\ Begun(sPc, sAttempt, sDelay, sEvent, h, ProductEvent(ProductOf(nextId), nextId))
          /\ nextId' = nextId + 1
          /\ UNCHANGED hStatus
     ELSE /\ hStatus' = [hStatus EXCEPT ![h] = StatusBadRequest]
          /\ UNCHANGED <<sPc, sAttempt, sDelay, sEvent, nextId>>
  /\ UNCHANGED <<workers, cancelled, wg, stopPc, store, accepted, refused,
                 written, dropped, lateWork>>
  /\ UNCHANGED <<events, closed, waiting, enqueued, delivered>>
  /\ SvcQueueHistoryUnchanged
  /\ SvcBreakerUnchanged
  /\ UNCHANGED notService

\* POST /events, at most MaxPosts requests with a body that binds
HandleEvent(h, valid) ==
  /\ nextId <= MaxPosts
  /\ HandleEventCall(h, valid)

\* the requests after the first MaxPosts, made while the queue is open and has
\* free capacity
HandleEventLate(h) ==
  /\ nextId > MaxPosts
  /\ nextId <= MaxPosts + MaxLatePosts
  /\ HasRoom
  /\ ~closed
  /\ HandleEventCall(h, TRUE)

\* circuitBreaker.Execute, from the Lock to the call of the operation, or the
\* rejecting return and what the retry loop does with it
SvcEnter(p) ==
  /\ sPc[p] = "try"
  /\ mutex = 0
  /\ IF RejectsWhileOpen
     THEN /\ lastFailureTime' = LastFailureAfterReject
          /\ UNCHANGED <<state, mutex>>
          /\ AttemptFailed(p)
     ELSE /\ state' = StateOnEnter
          /\ mutex' = MutexDuringOperation(p)
          /\ sPc' = [sPc EXCEPT ![p] = "op"]
          /\ UNCHANGED <<lastFailureTime, sAttempt, sDelay, sEvent, hStatus,
                         refused, dropped>>
  /\ UNCHANGED failures
  /\ UNCHANGED <<workers, cancelled, wg, stopPc, store, accepted, written, lateWork>>
  /\ SvcQueueUnchanged
  /\ SvcBreakerHistoryUnchanged
  /\ UNCHANGED notService

\* ProcessEvent's operation, s.queue.Enqueue(event), with the rest of Execute
\* (recordSuccess / recordFailure, the deferred Unlock) and of the retry loop.
\* A send on the closed channel panics: the deferred Unlock runs, nothing is
\* recorded and the request ends without an answer of HandleEvent.
EnqueueOp(h) ==
  /\ h \in Handlers
  /\ sPc[h] = "op"
  /\ mutex' = 0
  /\ IF SendPanics
     THEN /\ UNCHANGED <<state, failures, lastFailureTime>>
          /\ sPc' = [sPc EXCEPT ![h] = "idle"]
          /\ hStatus' = [hStatus EXCEPT ![h] = StatusInternalServerError]
          /\ UNCHANGED <<events, waiting, enqueued, sAttempt, sDelay,
                         sEvent, accepted, refused, dropped>>
     ELSE IF ReceiverParked
     THEN \E w \in waiting :
          /\ recordSuccess
          /\ waiting' = waiting \ {w}
          /\ enqueued' = Append(enqueued, sEvent[h].seq)
          /\ Begun([sPc EXCEPT ![h] = "idle"], sAttempt, sDelay, sEvent, w, sEvent[h])
          /\ hStatus' = [hStatus EXCEPT ![h] = StatusAccepted]
          /\ accepted' = accepted \cup {sEvent[h].seq}
          /\ UNCHANGED <<events, refused, dropped>>
     ELSE IF HasRoom
     THEN /\ recordSuccess
          /\ events' = Append(events, sEvent[h])
          /\ enqueued' = Append(enqueued, sEvent[h].seq)
          /\ Returned(h)
          /\ hStatus' = [hStatus EXCEPT ![h] = StatusAccepted]
          /\ accepted' = accepted \cup {sEvent[h].seq}
          /\ UNCHANGED <<waiting, refused, dropped>>
     ELSE /\ recordFailure
          /\ AttemptFailed(h)
          /\ UNCHANGED <<events, waiting, enqueued, accepted>>
  /\ UNCHANGED <<workers, cancelled, wg, stopPc, store, written, lateWork>>
  /\ UNCHANGED <<closed, nextId, delivered>>
  /\ SvcQueueHistoryUnchanged
  /\ SvcBreakerHistoryUnchanged
  /\ UNCHANGED notService

UpdateIgnored(e) == store

\* repository.Update(id, price, stock): r.data[id] = &models.Product{...}
UpdatedStore(e) == [store EXCEPT ![e.product] = e.seq]

\* processEvent's operation: time.Sleep(10ms); repository.Update; return nil,
\* with the rest of Execute and of ExecuteWithRetryAndCallback
UpdateOp(w) ==
  /\ w \in Workers
  /\ sPc[w] = "op"
  /\ store' = UpdatedStore(sEvent[w])
  /\ written' = written \cup {sEvent[w].seq}
  /\ lateWork' = (lateWork \/ stopPc = "returned")
  /\ recordSuccess
  /\ mutex' = 0
  /\ Returned(w)
  /\ UNCHANGED <<workers, cancelled, wg, stopPc, hStatus, accepted, refused, dropped>>
  /\ SvcQueueUnchanged
  /\ SvcBreakerHistoryUnchanged
  /\ UNCHANGED notService

\* worker: select { case <-wp.ctx.Done(): return; default: ... }
WorkerSelect(w) ==
  /\ w \in Workers
  /\ sPc[w] = "select"
  /\ IF cancelled
     THEN /\ sPc' = [sPc EXCEPT ![w] = "exited"]
          /\ wg' = wg - 1
     ELSE /\ sPc' = [sPc EXCEPT ![w] = "dequeue"]
          /\ UNCHANGED wg
  /\ UNCHANGED <<workers, cancelled, stopPc, sAttempt, sDelay, sEvent, hStatus,
                 store, accepted, refused, written, dropped, lateWork>>
  /\ SvcQueueUnchanged
  /\ SvcBreakerUnchanged
  /\ UNCHANGED notService

\* worker: event, ok := wp.queue.Dequeue(); if !ok { return }; wp.processEvent(event, id)
WorkerDequeue(w) ==
  /\ w \in Workers
  /\ sPc[w] = "dequeue"
  /\ IF events # <<>>
     THEN /\ events' = RestAfterReceive
          /\ Begun(sPc, sAttempt, sDelay, sEvent, w, Head(events))
          /\ lateWork' = (lateWork \/ stopPc = "returned")
          /\ UNCHANGED <<waiting, wg>>
     ELSE IF ReceiveBlocks
     THEN /\ waiting' = waiting \cup {w}
          /\ sPc' = [sPc EXCEPT ![w] = "parked"]
          /\ UNCHANGED <<events, sAttempt, sDelay, sEvent, wg, lateWork>>
     ELSE /\ sPc' = [sPc EXCEPT ![w] = "exited"]
          /\ wg' = wg - 1
          /\ UNCHANGED <<events, waiting, sAttempt, sDelay, sEvent, lateWork>>
  /\ UNCHANGED <<workers, cancelled, stopPc, hStatus, store, accepted, refused,
                 written, dropped>>
  /\ UNCHANGED <<closed, nextId, enqueued, delivered>>
  /\ SvcQueueHistoryUnchanged
  /\ SvcBreakerUnchanged
  /\ UNCHANGED notService

\* a worker parked in Dequeue was woken by Close with ok = false: it returns
WorkerWoken(w) ==
  /\ w \in Workers
  /\ sPc[w] = "woken"
  /\ sPc' = [sPc EXCEPT ![w] = "exited"]
  /\ wg' = wg - 1
  /\ UNCHANGED <<workers, cancelled, stopPc, sAttempt, sDelay, sEvent, hStatus,
                 store, accepted, refused, written, dropped, lateWork>>
  /\ SvcQueueUnchanged
  /\ SvcBreakerUnchanged
  /\ UNCHANGED notService

\* the owner of the queue closes it (once): parked workers wake with ok = false
CloseQueue ==
  /\ ~closed
  /\ closed' = TRUE
  /\ events' = BufferAfterClose
  /\ waiting' = {}
  /\ sPc' = [p \in Procs |-> IF p \in waiting THEN "woken" ELSE sPc[p]]
  /\ atClose' = events
  /\ UNCHANGED <<workers, cancelled, wg, stopPc, sAttempt, sDelay, sEvent,
                 hStatus, store, accepted, refused, written, dropped, lateWork>>
  /\ UNCHANGED <<nextId, enqueued, delivered>>
  /\ UNCHANGED <<capacity, deqRes, qOp, streak, okAfterClose, falseAfterClose,
                 okAfterFalse>>
  /\ SvcBreakerUnchanged
  /\ UNCHANGED notService

\* ProductService.Stop / WorkerPool.Stop: wp.cancel()
Stop ==
  /\ stopPc = "no"
  /\ \A w \in Launched : sPc[w] # "new"
  /\ cancelled' = TRUE
  /\ stopPc' = "waiting"
  /\ UNCHANGED <<workers, wg, sPc, sAttempt, sDelay, sEvent, hStatus, store,
                 accepted, refused, written, dropped, lateWork>>
  /\ SvcQueueUnchanged
  /\ SvcBreakerUnchanged
  /\ UNCHANGED notService

WaitSkipped == TRUE

\* wp.wg.Wait() returns when the counter is zero
WaitReturns == wg = 0

\* WorkerPool.Stop: wp.wg.Wait() returns and so does Stop
StopReturn ==
  /\ stopPc = "waiting"
  /\ WaitReturns
  /\ stopPc' = "returned"
  /\ UNCHANGED <<workers, cancelled, wg, sPc, sAttempt, sDelay, sEvent, hStatus,
                 store, accepted, refused, written, dropped, lateWork>>
  /\ SvcQueueUnchanged
  /\ SvcBreakerUnchanged
  /\ UNCHANGED notService

\* time passes; the service reads the clock only through an Open breaker that
\* still rejects, so only then does the passing of time change what it does
SvcTick == RejectsWhileOpen /\ Tick

SvcNext ==
  \/ Start
  \/ \E h \in Handlers, valid \in BOOLEAN : HandleEvent(h, valid)
  \/ \E p \in Procs : SvcEnter(p)
  \/ \E h \in Handlers : EnqueueOp(h)
  \/ \E w \in Workers : UpdateOp(w)
  \/ \E w \in Workers : WorkerSelect(w)
  \/ \E w \in Workers : WorkerDequeue(w)
  \/ \E w \in Workers : WorkerWoken(w)
  \/ CloseQueue
  \/ Stop
  \/ StopReturn
  \/ SvcTick

\* ---------------------------------------------------------------- the batch processor

\* NewBatchProcessor: flushChan: make(chan []models.ProductEvent, 10)
FlushChanSize == 10

BatchSizes == 1..MaxBatchSize

\* the goroutines that call AddEvent, and the processBatches goroutine
AddCallers == {"caller1", "caller2"}
BatchLoop == "loop"
MutexFree == "free"

\* the mutex is free, no AddEvent call and no handler invocation is in progress
BatchIdle ==
  /\ bpMutex = MutexFree
  /\ addPc = [c \in AddCallers |-> "idle"]
  /\ inHandler = 0

\* NewBatchProcessor(batchSize, flushInterval, processor); go bp.processBatches()
NewBatchProcessor(size) ==
  /\ batchSize = size
  /\ bpEvents = <<>>
  /\ flushChan = <<>>
  /\ stopChan = FALSE
  /\ bpLoop = "running"
  /\ BatchIdle

FlushAlways(buffer) == TRUE

\* AddEvent: if len(bp.events) >= bp.batchSize
BatchIsFull(buffer) == Len(buffer) >= batchSize

FlushChanHasRoomOffByOne == Len(flushChan) <= FlushChanSize

\* flushBatch: the send case of the select can proceed
FlushChanHasRoom == Len(flushChan) < FlushChanSize

BufferKeptByFlush(buffer) == buffer

\* flushBatch: bp.events = bp.events[:0]
BufferAfterFlush(buffer) == <<>>

BatchWithoutLast(buffer) == SubSeq(buffer, 1, Len(buffer) - 1)

\* flushBatch: eventsToProcess, the copy of bp.events
BatchOf(buffer) == buffer

BpOp(op, arg, res, batch) ==
  [op |-> op, arg |-> arg, res |-> res, batch |-> batch,
   pre |-> bpEvents, preChan |-> flushChan, preSince |-> sinceEmpty,
   preLog |-> flushLog]

ChanSendsToFront(batch) == <<batch>> \o flushChan

\* flushBatch: bp.flushChan <- eventsToProcess; a channel is first in, first out
ChanAfterSend(batch) == Append(flushChan, batch)

BufferNeverEmpty(buffer) == FALSE

\* flushBatch: if len(bp.events) == 0 { return nil }
BufferIsEmpty(buffer) == Len(buffer) = 0

\* processBatches: if len(bp.events) > 0, before the ticker's and Stop's flush
HasPending == Len(bpEvents) > 0

\* flushBatch on the given buffer, called by `by`; an empty buffer is left alone
flushBatch(by, buffer, arg) ==
  IF BufferIsEmpty(buffer)
  THEN /\ bpEvents' = buffer
       /\ bpOp' = BpOp(by, arg, "nil", <<>>)
       /\ UNCHANGED <<flushChan, flushLog>>
  ELSE /\ bpEvents' = BufferAfterFlush(buffer)
       /\ IF FlushChanHasRoom
          THEN /\ flushChan' = ChanAfterSend(BatchOf(buffer))
               /\ flushLog' = Append(flushLog, [by |-> by, batch |-> BatchOf(buffer), sent |-> TRUE])
               /\ bpOp' = BpOp(by, arg, "nil", BatchOf(buffer))
          ELSE /\ flushLog' = Append(flushLog, [by |-> by, batch |-> BatchOf(buffer), sent |-> FALSE])
               /\ bpOp' = BpOp(by, arg, "ErrBatchProcessorFull", BatchOf(buffer))
               /\ UNCHANGED flushChan

\* AddEvent: append under the mutex, flush when the batch is full
AddEventCall ==
  /\ adds' = adds + 1
  /\ bpNextId' = bpNextId + 1
  /\ IF BatchIsFull(Append(bpEvents, bpNextId))
     THEN /\ flushBatch("AddEvent", Append(bpEvents, bpNextId), bpNextId)
          /\ sinceEmpty' = <<>>
     ELSE /\ bpEvents' = Append(bpEvents, bpNextId)
          /\ sinceEmpty' = Append(sinceEmpty, bpNextId)
          /\ bpOp' = BpOp("AddEvent", bpNextId, "nil", <<>>)
          /\ UNCHANGED <<flushChan, flushLog>>
  /\ UNCHANGED <<batchSize, stopChan, bpLoop, processed>>
  /\ UNCHANGED notBatch

\* AddEvent, at most MaxAdds calls
AddEvent ==
  /\ adds < MaxAdds
  /\ AddEventCall
  /\ UNCHANGED lvars

\* AddEvent, at most MaxLateAdds calls after a burst of earlier calls
AddEventLate ==
  /\ adds < MaxLateAdds
  /\ AddEventCall
  /\ UNCHANGED lvars

LoopStopsOnError(ok) == IF ok THEN "running" ELSE "exited"

\* processBatches: if err := bp.processor(events); err != nil { }: the loop
\* goes on whatever the handler returned
LoopAfterHandler(ok) == "running"

\* processBatches: case events := <-bp.flushChan: bp.processor(events); its error is ignored
ProcessBatch(ok) ==
  /\ bpLoop = "running"
  /\ flushChan # <<>>
  /\ flushChan' = Tail(flushChan)
  /\ processed' = Append(processed, Head(flushChan))
  /\ bpOp' = BpOp("process", 0, IF ok THEN "nil" ELSE "error", Head(flushChan))
  /\ bpLoop' = LoopAfterHandler(ok)
  /\ UNCHANGED <<batchSize, bpEvents, stopChan, bpNextId, flushLog,
                 sinceEmpty, adds>>
  /\ UNCHANGED notBatch
  /\ UNCHANGED lvars

\* processBatches: case <-ticker.C: flush what is buffered
TickerFlush ==
  /\ bpLoop = "running"
  /\ IF HasPending
     THEN flushBatch("ticker", bpEvents, 0)
     ELSE /\ bpOp' = BpOp("ticker", 0, "nil", <<>>)
          /\ UNCHANGED <<bpEvents, flushChan, flushLog>>
  /\ sinceEmpty' = <<>>
  /\ UNCHANGED <<batchSize, stopChan, bpLoop, bpNextId, processed, adds>>
  /\ UNCHANGED notBatch
  /\ UNCHANGED lvars

\* flushBatch called by itself, as TestBatchProcessor_FlushBatch and
\* TestBatchProcessor_EmptyFlush call it: on a processor that has not been
\* stopped and has flushed nothing yet
FlushDirect ==
  /\ ~stopChan
  /\ flushLog = <<>>
  /\ flushBatch("direct", bpEvents, 0)
  /\ sinceEmpty' = <<>>
  /\ UNCHANGED <<batchSize, stopChan, bpLoop, bpNextId, processed, adds>>
  /\ UNCHANGED notBatch
  /\ UNCHANGED lvars

\* Stop: close(bp.stopChan), called once
StopBatch ==
  /\ ~stopChan
  /\ stopChan' = TRUE
  /\ bpOp' = BpOp("Stop", 0, "nil", <<>>)
  /\ UNCHANGED <<batchSize, bpEvents, flushChan, bpLoop, bpNextId, processed,
                 flushLog, sinceEmpty, adds>>
  /\ UNCHANGED notBatch
  /\ UNCHANGED lvars

\* processBatches: case <-bp.stopChan: flush what is buffered and return
StopFlush ==
  /\ bpLoop = "running"
  /\ stopChan
  /\ IF HasPending
     THEN flushBatch("stop", bpEvents, 0)
     ELSE /\ bpOp' = BpOp("stop", 0, "nil", <<>>)
          /\ UNCHANGED <<bpEvents, flushChan, flushLog>>
  /\ sinceEmpty' = <<>>
  /\ bpLoop' = "exited"
  /\ UNCHANGED <<batchSize, stopChan, bpNextId, processed, adds>>
  /\ UNCHANGED notBatch
  /\ UNCHANGED lvars

BatchHistoryInit ==
  /\ bpNextId = 1
  /\ processed = <<>>
  /\ flushLog = <<>>
  /\ sinceEmpty = <<>>
  /\ adds = 0
  /\ bpOp = [op |-> "New", arg |-> 0, res |-> "nil", batch |-> <<>>,
             pre |-> <<>>, preChan |-> <<>>, preSince |-> <<>>, preLog |-> <<>>]

\* no batch processor is modelled
BatchUnused ==
  /\ NewBatchProcessor(1)
  /\ BatchHistoryInit

\* ---- the same code step by step: Lock, the critical section, the handler

LoopSpawnsHandler == "running"

\* processBatches calls bp.processor(events) itself and waits for its return
LoopDuringHandler == "handling"

SendWaitsForRoom == FlushChanHasRoom

\* flushBatch: the select has a default case, the send never waits
SendProceeds == TRUE

AddCallsInProgress == {c \in AddCallers : addPc[c] # "idle"}

\* AddEvent is called: bp.mutex.Lock() is next
AddEventBegin(c) ==
  /\ addPc[c] = "idle"
  /\ adds + Cardinality(AddCallsInProgress) < MaxLockedAdds
  /\ addPc' = [addPc EXCEPT ![c] = "lock"]
  /\ UNCHANGED <<bpMutex, inHandler>>
  /\ UNCHANGED bvars
  /\ UNCHANGED notBatch

\* AddEvent: bp.mutex.Lock() returns
AddEventLock(c) ==
  /\ addPc[c] = "lock"
  /\ bpMutex = MutexFree
  /\ bpMutex' = c
  /\ addPc' = [addPc EXCEPT ![c] = "locked"]
  /\ UNCHANGED inHandler
  /\ UNCHANGED bvars
  /\ UNCHANGED notBatch

\* AddEvent under the mutex: append, flush when the batch is full, the
\* deferred Unlock, the return
AddEventLocked(c) ==
  /\ addPc[c] = "locked"
  /\ BatchIsFull(Append(bpEvents, bpNextId)) => SendProceeds
  /\ AddEventCall
  /\ bpMutex' = MutexFree
  /\ addPc' = [addPc EXCEPT ![c] = "idle"]
  /\ UNCHANGED inHandler

\* processBatches: case events := <-bp.flushChan: bp.processor(events) is called
LoopReceive ==
  /\ bpLoop = "running"
  /\ flushChan # <<>>
  /\ flushChan' = Tail(flushChan)
  /\ processed' = Append(processed, Head(flushChan))
  /\ inHandler' = inHandler + 1
  /\ bpLoop' = LoopDuringHandler
  /\ bpOp' = BpOp("process", 0, "called", Head(flushChan))
  /\ UNCHANGED <<batchSize, bpEvents, stopChan, bpNextId, flushLog, sinceEmpty, adds>>
  /\ UNCHANGED <<bpMutex, addPc>>
  /\ UNCHANGED notBatch

\* bp.processor(events) returns; its error is ignored
HandlerReturn(ok) ==
  /\ inHandler > 0
  /\ inHandler' = inHandler - 1
  /\ bpLoop' = IF bpLoop = "handling" THEN LoopAfterHandler(ok) ELSE bpLoop
  /\ UNCHANGED <<batchSize, bpEvents, flushChan, stopChan, bpNextId, processed,
                 flushLog, sinceEmpty, adds, bpOp>>
  /\ UNCHANGED <<bpMutex, addPc>>
  /\ UNCHANGED notBatch

\* processBatches: the select takes case <-ticker.C (to = "tick") or, once
\* stopChan is closed, case <-bp.stopChan (to = "stop"): bp.mutex.Lock() is next
LoopSelect(to) ==
  /\ bpLoop = "running"
  /\ to = "stop" => stopChan
  /\ bpLoop' = to
  /\ UNCHANGED <<batchSize, bpEvents, flushChan, stopChan, bpNextId, processed,
                 flushLog, sinceEmpty, adds, bpOp>>
  /\ UNCHANGED lvars
  /\ UNCHANGED notBatch

\* processBatches: bp.mutex.Lock() returns
LoopLock ==
  /\ bpLoop \in {"tick", "stop"}
  /\ bpMutex = MutexFree
  /\ bpMutex' = BatchLoop
  /\ bpLoop' = IF bpLoop = "tick" THEN "ticking" ELSE "stopping"
  /\ UNCHANGED <<batchSize, bpEvents, flushChan, stopChan, bpNextId, processed,
                 flushLog, sinceEmpty, adds, bpOp>>
  /\ UNCHANGED <<addPc, inHandler>>
  /\ UNCHANGED notBatch

\* processBatches under the mutex: flush what is buffered, Unlock; the ticker's
\* case goes back to the select, Stop's case returns
LoopFlush ==
  /\ bpLoop \in {"ticking", "stopping"}
  /\ HasPending => SendProceeds
  /\ IF HasPending
     THEN flushBatch(IF bpLoop = "ticking" THEN "ticker" ELSE "stop", bpEvents, 0)
     ELSE /\ bpOp' = BpOp(IF bpLoop = "ticking" THEN "ticker" ELSE "stop", 0, "nil", <<>>)
          /\ UNCHANGED <<bpEvents, flushChan, flushLog>>
  /\ sinceEmpty' = <<>>
  /\ bpMutex' = MutexFree
  /\ bpLoop' = IF bpLoop = "ticking" THEN "running" ELSE "exited"
  /\ UNCHANGED <<batchSize, stopChan, bpNextId, processed, adds>>
  /\ UNCHANGED <<addPc, inHandler>>
  /\ UNCHANGED notBatch

BatchLockedNext ==
  \/ \E c \in AddCallers : AddEventBegin(c)
  \/ \E c \in AddCallers : AddEventLock(c)
  \/ \E c \in AddCallers : AddEventLocked(c)
  \/ LoopReceive
  \/ \E ok \in BOOLEAN : HandlerReturn(ok)
  \/ \E to \in {"tick", "stop"} : LoopSelect(to)
  \/ LoopLock
  \/ LoopFlush
  \/ StopBatch

\* the n-th batch of a burst of AddEvent calls on a new processor
BurstBatch(size, n) == [j \in 1..size |-> (n - 1) * size + j]

\* no batch waits in the flush channel, or as many as it holds
Backlogs == {0, FlushChanSize}

\* the processor after a burst of n * size AddEvent calls made while its loop
\* did not run (its goroutine not yet scheduled): n batches, flushed by the
\* calls, wait in the flush channel
NewBatchProcessorAfterBurst(size, n) ==
  /\ batchSize = size
  /\ bpEvents = <<>>
  /\ flushChan = [i \in 1..n |-> BurstBatch(size, i)]
  /\ stopChan = FALSE
  /\ bpLoop = "running"
  /\ bpNextId = n * size + 1
  /\ processed = <<>>
  /\ flushLog = [i \in 1..n |->
                  [by |-> "AddEvent", batch |-> BurstBatch(size, i), sent |-> TRUE]]
  /\ sinceEmpty = <<>>
  /\ adds = 0
  /\ bpOp = [op |-> "New", arg |-> 0, res |-> "nil", batch |-> <<>>,
             pre |-> <<>>, preChan |-> <<>>, preSince |-> <<>>, preLog |-> <<>>]
  /\ BatchIdle

BatchNext ==
  \/ AddEvent
  \/ \E ok \in BOOLEAN : ProcessBatch(ok)
  \/ TickerFlush
  \/ FlushDirect
  \/ StopBatch
  \/ StopFlush

\* ---------------------------------------------------------------- specifications

\* the queue alone, for every capacity; the breaker is not used
QInit ==
  /\ \E bufferSize \in Capacities : NewInMemoryEventQueue(bufferSize)
  /\ QHistoryInit
  /\ NewCircuitBreaker(1, 0)
  /\ CBHistoryInit
  /\ RetryUnused
  /\ NewProductService(0)
  /\ BatchUnused

SpecQueue == QInit /\ [][QNext]_vars

\* the breaker alone, for every threshold and timeout; the queue is not used
CBInit ==
  /\ \E threshold \in Thresholds, openTimeout \in Timeouts :
       NewCircuitBreaker(threshold, openTimeout)
  /\ CBHistoryInit
  /\ NewInMemoryEventQueue(0)
  /\ QHistoryInit
  /\ RetryUnused
  /\ NewProductService(0)
  /\ BatchUnused

SpecCB == CBInit /\ [][CBNext]_vars

\* one retry call, for every configuration, variant and sequence of outcomes
RetryInit ==
  /\ \E maxAttempts \in AttemptLimits, initialDelay \in Durations,
        maxDelay \in Durations, multiplier \in Multipliers :
       NewRetryConfig(maxAttempts, initialDelay, maxDelay, multiplier)
  /\ \E variant \in {"plain", "callback"}, onFailure \in BOOLEAN :
       /\ rVariant = variant
       /\ rOnFailure = (onFailure /\ variant = "callback")
  /\ RetryEntry
  /\ NewInMemoryEventQueue(0)
  /\ QHistoryInit
  /\ NewCircuitBreaker(1, 0)
  /\ CBHistoryInit
  /\ NewProductService(0)
  /\ BatchUnused

SpecRetry == RetryInit /\ [][RetryNext]_vars

\* the service as main and the tests assemble it: a queue, the breaker and the
\* retry configuration NewProductService fixes, 1..NumWorkers workers; requests
\* arrive, the service is started and stopped, the queue may be closed
SvcInit ==
  /\ \E size \in QueueSizes : NewInMemoryEventQueue(size)
  /\ QHistoryInit
  /\ NewCircuitBreaker(ServiceFailureThreshold, ServiceBreakerTimeout)
  /\ CBHistoryInit
  /\ DefaultRetryConfig
  /\ rVariant = "plain"
  /\ rOnFailure = FALSE
  /\ RetryEntry
  /\ \E n \in WorkerCounts : NewProductService(n)
  /\ BatchUnused

SpecService == SvcInit /\ [][SvcNext]_vars

\* the Go scheduler runs every runnable goroutine, and sync.Mutex hands the
\* lock to a waiter that has been starved; requests, Start, Stop, Close and
\* the passing of time are the environment's and carry no fairness
SvcFairness ==
  /\ \A p \in Procs : SF_vars(SvcEnter(p))
  /\ \A h \in Handlers : WF_vars(EnqueueOp(h))
  /\ \A w \in Workers :
       WF_vars(UpdateOp(w) \/ WorkerSelect(w) \/ WorkerDequeue(w) \/ WorkerWoken(w))
  /\ WF_vars(StopReturn)

SpecServiceLive == SvcInit /\ [][SvcNext]_vars /\ SvcFairness

\* the service while it runs: started, Stop not called, the queue left open,
\* every request well-formed
SvcRunningNext ==
  \/ Start
  \/ \E h \in Handlers : HandleEvent(h, TRUE)
  \/ \E p \in Procs : SvcEnter(p)
  \/ \E h \in Handlers : EnqueueOp(h)
  \/ \E w \in Workers : UpdateOp(w)
  \/ \E w \in Workers : WorkerSelect(w)
  \/ \E w \in Workers : WorkerDequeue(w)
  \/ SvcTick

SvcRunningFairness ==
  /\ \A p \in Procs : SF_vars(SvcEnter(p))
  /\ \A h \in Handlers : WF_vars(EnqueueOp(h))
  /\ \A w \in Workers :
       WF_vars(UpdateOp(w) \/ WorkerSelect(w) \/ WorkerDequeue(w))

SpecServiceRunning == SvcInit /\ [][SvcRunningNext]_vars /\ SvcRunningFairness

\* the running service (started, Stop not called, the queue left open, every
\* request well-formed) that gets further requests while its queue has room
SvcLateNext ==
  \/ Start
  \/ \E h \in Handlers : HandleEvent(h, TRUE)
  \/ \E h \in Handlers : HandleEventLate(h)
  \/ \E p \in Procs : SvcEnter(p)
  \/ \E h \in Handlers : EnqueueOp(h)
  \/ \E w \in Workers : UpdateOp(w)
  \/ \E w \in Workers : WorkerSelect(w)
  \/ \E w \in Workers : WorkerDequeue(w)
  \/ SvcTick

SpecServiceLate == SvcInit /\ [][SvcLateNext]_vars

\* a request served before shutdown begins
HandleEventBeforeStop(h) ==
  /\ stopPc = "no"
  /\ HandleEvent(h, TRUE)

\* main's signal goroutine calls productService.Stop() while no request is
\* being served
StopWhenIdle ==
  /\ \A h \in Handlers : sPc[h] = "idle"
  /\ Stop

\* the service that is shut down as main does it: requests are served until
\* Stop is called, none is in progress then and none arrives later; the queue
\* is never closed
SvcShutdownNext ==
  \/ Start
  \/ \E h \in Handlers : HandleEventBeforeStop(h)
  \/ \E p \in Procs : SvcEnter(p)
  \/ \E h \in Handlers : EnqueueOp(h)
  \/ \E w \in Workers : UpdateOp(w)
  \/ \E w \in Workers : WorkerSelect(w)
  \/ \E w \in Workers : WorkerDequeue(w)
  \/ StopWhenIdle
  \/ StopReturn

SpecServiceShutdown == SvcInit /\ [][SvcShutdownNext]_vars

\* the service whose queue is closed at some moment and whose pool may be
\* stopped; every request is well-formed and no time passes
SvcClosingNext ==
  \/ Start
  \/ \E h \in Handlers : HandleEvent(h, TRUE)
  \/ \E p \in Procs : SvcEnter(p)
  \/ \E h \in Handlers : EnqueueOp(h)
  \/ \E w \in Workers : UpdateOp(w)
  \/ \E w \in Workers : WorkerSelect(w)
  \/ \E w \in Workers : WorkerDequeue(w)
  \/ \E w \in Workers : WorkerWoken(w)
  \/ CloseQueue
  \/ Stop
  \/ StopReturn

SpecServiceClosing == SvcInit /\ [][SvcClosingNext]_vars /\ SvcFairness

\* the batch processor alone, for every batch size
BatchInit ==
  /\ \E size \in BatchSizes : NewBatchProcessor(size)
  /\ BatchHistoryInit
  /\ NewInMemoryEventQueue(0)
  /\ QHistoryInit
  /\ NewCircuitBreaker(1, 0)
  /\ CBHistoryInit
  /\ RetryUnused
  /\ NewProductService(0)

SpecBatch == BatchInit /\ [][BatchNext]_vars

\* the batch processor while it is not stopped, from a new processor or from
\* one whose flush channel is full after a burst of AddEvent calls
BatchRunningInit ==
  /\ \E size \in BatchSizes, n \in Backlogs : NewBatchProcessorAfterBurst(size, n)
  /\ NewInMemoryEventQueue(0)
  /\ QHistoryInit
  /\ NewCircuitBreaker(1, 0)
  /\ CBHistoryInit
  /\ RetryUnused
  /\ NewProductService(0)

BatchRunningNext ==
  \/ AddEventLate
  \/ \E ok \in BOOLEAN : ProcessBatch(ok)
  \/ TickerFlush

\* the loop's goroutine is scheduled and its select takes a case that is
\* ready: a waiting batch is received, and the ticker keeps ticking; AddEvent
\* is the callers' and carries no fairness
BatchFairness ==
  /\ WF_vars(\E ok \in BOOLEAN : ProcessBatch(ok))
  /\ WF_vars(TickerFlush)

SpecBatchRunning == BatchRunningInit /\ [][BatchRunningNext]_vars /\ BatchFairness

\* the batch processor step by step, with Stop.  sync.Mutex hands the lock to a
\* goroutine that has waited for it (starvation mode), and a goroutine that
\* holds the lock goes on; the handler need not return, the ticker and the
\* callers are the environment's
BatchLockedFairness ==
  /\ \A c \in AddCallers : SF_vars(AddEventLock(c))
  /\ \A c \in AddCallers : WF_vars(AddEventLocked(c))
  /\ SF_vars(LoopLock)
  /\ WF_vars(LoopFlush)

\* from a processor whose flush channel is full after a burst of AddEvent calls
BatchLockedInit ==
  /\ \E size \in BatchSizes : NewBatchProcessorAfterBurst(size, FlushChanSize)
  /\ NewInMemoryEventQueue(0)
  /\ QHistoryInit
  /\ NewCircuitBreaker(1, 0)
  /\ CBHistoryInit
  /\ RetryUnused
  /\ NewProductService(0)

SpecBatchLocked ==
  BatchLockedInit /\ [][BatchLockedNext]_vars /\ BatchLockedFairness

\* the same with a handler that returns an error for every batch, as the
\* handler of TestBatchProcessor_ProcessorError does
BatchFailingNext ==
  \/ AddEventLate
  \/ ProcessBatch(FALSE)
  \/ TickerFlush

BatchFailingFairness ==
  /\ WF_vars(ProcessBatch(FALSE))
  /\ WF_vars(TickerFlush)

SpecBatchFailing ==
  BatchRunningInit /\ [][BatchFailingNext]_vars /\ BatchFailingFairness

\* ---------------------------------------------------------------- queue claims

IsPrefix(s, t) == Len(s) <= Len(t) /\ SubSeq(t, 1, Len(s)) = s

DeliveredEvents == [i \in 1..Len(delivered) |-> delivered[i].ev]

\* C1: for every capacity C >= 1, the Enqueue calls made on an empty open queue
\* with no Dequeue in between succeed while fewer than C events are buffered
\* and append their event; the call made with C events buffered fails with
\* "queue is full" and leaves the C buffered events as they were.
C1_FullAfterCapacity ==
  (capacity >= 1 /\ qOp.op = "Enqueue" /\ qOp.preStreak >= 0) =>
    /\ qOp.preStreak = Len(qOp.pre)
    /\ qOp.preStreak <= capacity
    /\ qOp.preStreak < capacity =>
         (qOp.res = "ok" /\ events = Append(qOp.pre, qOp.arg))
    /\ qOp.preStreak = capacity =>
         (qOp.res = "full" /\ events = qOp.pre /\ Len(events) = capacity)

C1_Witness ==
  /\ capacity >= 2
  /\ qOp.op = "Enqueue"
  /\ qOp.preStreak = capacity
  /\ qOp.res = "full"

\* C2: an Enqueue made after Close returns an error to its caller, adds no
\* event and leaves the buffered events unchanged.
C2_EnqueueAfterCloseReturnsError ==
  (qOp.op = "Enqueue" /\ qOp.preClosed) =>
    /\ qOp.res \in {"full", "closed"}
    /\ events = qOp.pre

\* C3: after Close, the events buffered at that moment are returned by the
\* following Dequeue calls in the order they were enqueued, each with
\* ok = true, and ok = false is reported only after the last of them.
C3_DrainAfterClose ==
  closed =>
    /\ okAfterClose \o events = atClose
    /\ ~okAfterFalse
    /\ falseAfterClose => okAfterClose = atClose
    /\ (qOp.op = "Dequeue" /\ qOp.preClosed /\ qOp.pre # <<>>) =>
         (qOp.res = "ok" /\ qOp.got = Head(qOp.pre) /\ deqRes[qOp.who].ok)
    /\ (qOp.op = "Dequeue" /\ qOp.preClosed /\ qOp.pre = <<>>) =>
         (qOp.res = "false" /\ ~deqRes[qOp.who].ok)

C3_Witness ==
  /\ closed
  /\ Len(atClose) >= 2
  /\ okAfterClose = atClose
  /\ falseAfterClose
  /\ qOp.op = "Dequeue"

C5_State ==
  /\ \A c \in waiting : ~closed /\ events = <<>>
  /\ (qOp.op = "Dequeue" /\ qOp.res = "false") =>
       (qOp.preClosed /\ qOp.pre = <<>> /\ closed /\ events = <<>>)
  /\ (qOp.op = "Dequeue" /\ ~qOp.preClosed /\ qOp.pre = <<>>) =>
       (qOp.res = "blocked" /\ qOp.who \in waiting)

C5_Step ==
  \A c \in waiting :
    /\ deqRes'[c] # deqRes[c] => c \notin waiting'
    /\ c \notin waiting' =>
         \/ /\ qOp'.op = "Enqueue"
            /\ qOp'.res = "ok"
            /\ deqRes'[c] = [ev |-> qOp'.arg, ok |-> TRUE, any |-> TRUE]
         \/ /\ qOp'.op = "Close"
            /\ closed'
            /\ events' = <<>>
            /\ deqRes'[c] = [ev |-> NoEvent, ok |-> FALSE, any |-> TRUE]

C6_EmptyDequeueReturnsFalse ==
  (qOp.op = "Dequeue" /\ enqueued = <<>> /\ ~qOp.preClosed /\ qOp.pre = <<>>) =>
    (qOp.res = "false" /\ qOp.who \notin waiting)

\* C7: under every interleaving of producers and consumers, each event whose
\* Enqueue succeeded has been returned by Dequeue at most once, to one
\* consumer, or is still buffered (none lost, none duplicated), and events
\* leave the queue in the order their Enqueues took effect.
C7_ExactlyOnceFifo ==
  /\ enqueued = DeliveredEvents \o events
  /\ \A i, j \in 1..Len(delivered) :
       delivered[i].ev = delivered[j].ev => i = j
  /\ \A c \in Consumers :
       deqRes[c].ok => \E i \in 1..Len(delivered) :
                          delivered[i] = [ev |-> deqRes[c].ev, to |-> c]
  /\ (qOp.op = "Enqueue" /\ qOp.res = "ok") =>
       enqueued[Len(enqueued)] = qOp.arg
  /\ (qOp.op = "Enqueue" /\ qOp.res # "ok") =>
       \A i \in 1..Len(enqueued) : enqueued[i] # qOp.arg

C7_Witness ==
  /\ Len(delivered) >= 3
  /\ events # <<>>
  /\ \E i, j \in 1..Len(delivered) : delivered[i].to # delivered[j].to
  /\ \E i \in 1..Len(delivered) : delivered[i].ev = 1

\* ---------------------------------------------------------------- breaker claims

InOperation == {c \in Callers : cbPc[c] = "op"}

\* C8: starting Closed, the breaker has left Closed exactly when failureThreshold
\* failing operations have run with no successful operation or Reset in
\* between; fewer consecutive failures leave it Closed, the failure counter
\* counts those consecutive failures, and a success sets it to 0.
C8_OpensAtThreshold ==
  /\ (state # "Closed") <=> (consec >= failureThreshold)
  /\ failures = consec
  /\ (cbOp.op = "OpReturn" /\ cbOp.ok) => (failures = 0 /\ state = "Closed")
  /\ (cbOp.op = "OpReturn" /\ ~cbOp.ok /\ cbOp.pre.state = "Closed") =>
       /\ failures = cbOp.pre.failures + 1
       /\ (state = "Open") <=> (failures = failureThreshold)
       /\ (state = "Closed") <=> (failures < failureThreshold)

C8_Witness ==
  /\ failureThreshold >= 2
  /\ state = "Open"
  /\ cbOp.op = "OpReturn"
  /\ cbOp.pre.state = "Closed"
  /\ consec = failureThreshold
  /\ opCalls > failureThreshold

\* C9: an Execute that finds the breaker Open before the timeout has elapsed
\* since the last recorded failure returns the circuit-open error without
\* invoking the operation and leaves state, failure count and last-failure
\* time as they were.
C9_RejectsWhileOpen ==
  (cbOp.op = "Enter" /\ cbOp.pre.state = "Open" /\ cbOp.pre.since < timeout) =>
    /\ cbOp.rejected
    /\ cbRes[cbOp.who] = "open"
    /\ cbPc[cbOp.who] = "idle"
    /\ opCalls = cbOp.pre.opCalls
    /\ state = "Open"
    /\ failures = cbOp.pre.failures
    /\ lastFailureTime = cbOp.pre.lft
    /\ mutex = 0

C9_Witness ==
  /\ cbOp.op = "Enter"
  /\ cbOp.rejected
  /\ cbOp.pre.now > cbOp.pre.lft
  /\ cbRes[cbOp.who] = "open"

C10_State ==
  /\ state = "HalfOpen" =>
       \E c \in Callers : InOperation = {c} /\ mutex = c
  /\ Cardinality(InOperation) <= 1

C10_Step ==
  \* the probe is admitted only once the timeout has elapsed, and is invoked
  /\ (state = "Open" /\ state' = "HalfOpen") =>
       (Since >= timeout /\ opCalls' = opCalls + 1 /\ cbOp'.op = "Enter")
  \* an Open breaker whose timeout has elapsed lets the next caller through
  /\ (state = "Open" /\ Since >= timeout /\ cbOp'.op = "Enter") =>
       (state' = "HalfOpen" /\ cbPc'[cbOp'.who] = "op")
  \* no second operation is let through while the probe runs
  /\ state = "HalfOpen" =>
       /\ opCalls' = opCalls
       /\ state' # "HalfOpen" => cbOp'.op = "OpReturn"
  \* the probe's outcome decides the next state
  /\ (state = "HalfOpen" /\ cbOp'.op = "OpReturn" /\ cbOp'.ok) =>
       (state' = "Closed" /\ failures' = 0)
  /\ (state = "HalfOpen" /\ cbOp'.op = "OpReturn" /\ ~cbOp'.ok) =>
       (state' = "Open" /\ lastFailureTime' = now /\ probeFailed')
  \* after a failed probe the other callers are rejected until the timeout
  \* has elapsed again
  /\ (probeFailed /\ cbOp'.op = "Enter" /\ Since < timeout) =>
       /\ cbRes'[cbOp'.who] = "open"
       /\ cbPc'[cbOp'.who] = "idle"
       /\ opCalls' = opCalls
       /\ state' = "Open"

\* C10: once the timeout has elapsed on an Open breaker, exactly one probe
\* operation is let through in Half-Open, also with other Execute calls
\* waiting; a successful probe leaves the breaker Closed with failure count
\* 0, a failed probe leaves it Open, and the callers that follow it before
\* the timeout has elapsed again are rejected without their operation being
\* invoked.
C10_SingleProbe == []C10_State /\ [][C10_Step]_vars

C10_Witness ==
  /\ cbOp.op = "Enter"
  /\ cbOp.rejected
  /\ cbOp.pre.probeFailed
  /\ cbOp.pre.now = cbOp.pre.lft
  /\ cbRes[cbOp.who] = "open"
  /\ opCalls >= failureThreshold + 1

\* the breaker has just been Reset: no Execute has taken the lock since
C11_State ==
  /\ cbOp.op = "Reset" => afterReset = cbOp.pre.state
  /\ afterReset # "no" => (state = "Closed" /\ failures = 0 /\ mutex = 0)

C11_Step ==
  (afterReset # "no" /\ cbOp'.op = "Enter") =>
    /\ ~cbOp'.rejected
    /\ cbPc'[cbOp'.who] = "op"
    /\ opCalls' = opCalls + 1
    /\ state' = "Closed"

\* C11: Reset leaves the breaker Closed with failure count 0 from every state
\* it can find, and the next Execute after a Reset invokes its operation,
\* however recently the breaker was opened.
C11_ResetCloses == []C11_State /\ [][C11_Step]_vars

C11_Witness ==
  /\ cbOp.op = "Enter"
  /\ cbOp.pre.afterReset = "Open"
  /\ cbOp.pre.since < timeout
  /\ cbPc[cbOp.who] = "op"

\* every operation completed so far failed, with no Reset after a failure
AllFailedSoFar == consec = opCalls - Cardinality(InOperation)

\* no Half-Open probe has been let through
NoProbeYet == state # "HalfOpen" /\ ~probeFailed

\* C12: with operations that all fail, on a breaker that starts Closed with
\* threshold T and whose timeout lets no probe through, at most T operations
\* are invoked, every failure is counted, and once N >= T Execute calls have
\* all returned the breaker is Open with exactly T operations invoked and
\* failure count T.
C12_ConcurrentFailures ==
  (AllFailedSoFar /\ NoProbeYet) =>
    /\ opCalls <= failureThreshold
    /\ failures = opCalls - Cardinality(InOperation)
    /\ (state = "Open") <=> (failures = failureThreshold)
    /\ ((\A c \in Callers : cbPc[c] = "idle") /\ calls >= failureThreshold) =>
         /\ state = "Open"
         /\ opCalls = failureThreshold
         /\ failures = failureThreshold

C12_Witness ==
  /\ AllFailedSoFar
  /\ NoProbeYet
  /\ failureThreshold >= 2
  /\ calls > failureThreshold
  /\ \A c \in Callers : cbPc[c] = "idle"
  /\ \E c \in Callers : cbRes[c] = "open"
  /\ \E c \in Callers : cbRes[c] = "fail"
  /\ state = "Open"

\* C28: whenever the breaker is Open its failure count is at least
\* failureThreshold.  A step that opens the breaker is a failure that raises
\* the count by one to the threshold or beyond, and a step that lowers the
\* count (a success, Reset) ends with the breaker Closed.
C28_OpenImpliesThreshold ==
  /\ state = "Open" => failures >= failureThreshold
  /\ (state = "Open" /\ cbOp.pre.state # "Open") =>
       /\ cbOp.op = "OpReturn"
       /\ ~cbOp.ok
       /\ failures = cbOp.pre.failures + 1
  /\ failures < cbOp.pre.failures =>
       /\ state = "Closed"
       /\ failures = 0
       /\ cbOp.op \in {"OpReturn", "Reset"}

\* a failed probe has reopened the breaker with the count above the threshold
C28_Witness ==
  /\ state = "Open"
  /\ cbOp.op = "OpReturn"
  /\ cbOp.pre.state = "HalfOpen"
  /\ failures > failureThreshold

\* ---------------------------------------------------------------- retry claims

RetryOps == SelectSeq(rLog, LAMBDA e : e.what = "op")

RetrySleeps == SelectSeq(rLog, LAMBDA e : e.what = "sleep")

RetryCallbacks == SelectSeq(rLog, LAMBDA e : e.what = "callback")

RetryFailures == SelectSeq(rLog, LAMBDA e : e.what = "op" /\ ~e.ok)

RECURSIVE Power(_, _)
Power(b, e) == IF e = 0 THEN 1 ELSE b * Power(b, e - 1)

Min(a, b) == IF a <= b THEN a ELSE b

\* the attempts are numbered 1, 2, ..., none follows a success, and a finished
\* call made min(k, maxAttempts) of them, k the first attempt that succeeds;
\* it returned nil iff its last attempt succeeded and the exhaustion error iff
\* all maxAttempts attempts failed, having slept between attempts only
AttemptContract ==
  /\ Len(RetryOps) <= rMaxAttempts
  /\ \A i \in 1..Len(RetryOps) :
       /\ RetryOps[i].n = i
       /\ RetryOps[i].ok => i = Len(RetryOps)
  /\ rPc = "done" =>
       /\ Len(RetryOps) >= 1
       /\ rResult \in {"nil", "exhausted"}
       /\ (rResult = "nil") <=> RetryOps[Len(RetryOps)].ok
       /\ (rResult = "exhausted") <=>
            (Len(RetryOps) = rMaxAttempts /\ ~RetryOps[Len(RetryOps)].ok)
       /\ rLog[Len(rLog)].what # "sleep"
       /\ Len(RetrySleeps) = Len(RetryOps) - 1

\* C13: with maxAttempts >= 1, ExecuteWithRetry invokes the operation exactly
\* min(k, maxAttempts) times, k the first attempt on which it succeeds; it
\* returns success iff k <= maxAttempts and the exhaustion error otherwise,
\* and it does not sleep after the final failed attempt.
C13_AttemptCount ==
  (rVariant = "plain" /\ rMaxAttempts >= 1) => AttemptContract

C13_Witness ==
  /\ rVariant = "plain"
  /\ rMaxAttempts >= 2
  /\ rPc = "done"
  /\ rResult = "exhausted"
  /\ Len(RetryOps) = rMaxAttempts

\* C14: with maxAttempts >= 1 and multiplier >= 1, whatever the relation
\* between initialDelay and maxDelay, the delay slept after the (i+1)-th
\* failed attempt is min(initialDelay * multiplier^i, maxDelay) (in whole
\* units), so no sleep is longer than maxDelay.
C14_DelayFormula ==
  (rVariant = "plain" /\ rMaxAttempts >= 1) =>
    \A i \in 0..(Len(RetrySleeps) - 1) :
      /\ RetrySleeps[i + 1].n =
           Min((rInitialDelay * Power(rMultiplier, i)) \div Power(MultiplierUnit, i),
               rMaxDelay)
      /\ RetrySleeps[i + 1].n <= rMaxDelay

\* C15: ExecuteWithRetryAndCallback calls onFailure once after every failing
\* attempt, the last one included, with the attempt numbers 1, 2, ... in
\* order and before the sleep that follows the attempt, and never for a
\* succeeding attempt; with a nil callback nothing is called, and in both
\* cases the attempts and the result are those of ExecuteWithRetry.
C15_CallbackPerFailure ==
  rVariant = "callback" =>
    /\ rMaxAttempts >= 1 => AttemptContract
    /\ ~rOnFailure => RetryCallbacks = <<>>
    /\ rOnFailure =>
         /\ \A j \in 1..Len(rLog) :
              /\ (rLog[j].what = "op" /\ ~rLog[j].ok /\ (j < Len(rLog) \/ rPc # "callback")) =>
                   (j < Len(rLog) /\ rLog[j + 1].what = "callback" /\ rLog[j + 1].n = rLog[j].n)
              /\ rLog[j].what = "callback" =>
                   (j > 1 /\ rLog[j - 1].what = "op" /\ ~rLog[j - 1].ok
                    /\ rLog[j - 1].n = rLog[j].n)
              /\ rLog[j].what = "sleep" => (j > 1 /\ rLog[j - 1].what = "callback")
         /\ \A i \in 1..Len(RetryCallbacks) : RetryCallbacks[i].n = i
         /\ rPc \in {"last", "sleep", "loop", "op", "done"} =>
              Len(RetryCallbacks) = Len(RetryFailures)

C15_Witness ==
  /\ rVariant = "callback"
  /\ rOnFailure
  /\ rMaxAttempts >= 2
  /\ rPc = "done"
  /\ rResult = "exhausted"
  /\ Len(RetryCallbacks) = rMaxAttempts
  /\ Len(RetrySleeps) = rMaxAttempts - 1

\* C37 as stated: for every MaxAttempts and both variants, a call that
\* returned nil has invoked the operation with success.
C37_SuccessNeedsSuccessfulCall ==
  rResult = "nil" => \E j \in 1..Len(rLog) : rLog[j].what = "op" /\ rLog[j].ok

\* ---------------------------------------------------------------- service claims

\* the events buffered in the channel, by request number
Buffered == {events[i].seq : i \in 1..Len(events)}

\* the events a worker holds: dequeued and not yet through processEvent
InHand == {sEvent[w].seq : w \in {v \in Workers : sPc[v] \in {"try", "op"}}}

\* how often an event was sent into the channel
TimesPlaced(n) == Cardinality({i \in 1..Len(enqueued) : enqueued[i] = n})

C16_State ==
  /\ \A n \in accepted : n \in Buffered \cup InHand \cup written \cup dropped
  /\ written \cap dropped = {}
  /\ written \cup dropped \subseteq accepted
  /\ (capacity = TestQueueSize /\ nextId <= TestQueueSize + 1) => dropped = {}
  /\ \A product \in Products :
       store[product] # 0 =>
         (store[product] \in written /\ ProductOf(store[product]) = product)
  /\ \A n \in written : store[ProductOf(n)] # 0

Running == stopPc = "no" /\ \A w \in Launched : sPc[w] # "new"

C16_Step ==
  dropped' # dropped =>
    /\ RejectsWhileOpen
    /\ \E w \in Workers :
         /\ sPc[w] = "try"
         /\ AttemptIsLast(w)
         /\ dropped' = dropped \cup {sEvent[w].seq}

C17_NoWorkerAfterStop ==
  stopPc = "returned" =>
    /\ \A w \in Launched : sPc[w] = "exited"
    /\ wg = 0
    /\ ~lateWork

C17_Witness ==
  /\ stopPc = "returned"
  /\ written # {}
  /\ \A w \in Launched : sPc[w] = "exited"

\* C18: once Stop has been called on a started pool, every worker eventually
\* exits and Stop returns, whatever the queue holds and whether it is open or
\* closed.
C18_StopReturns == (stopPc = "waiting") ~> (stopPc = "returned")

\* C19: an event for which ProcessEvent returned nil was sent into the
\* channel exactly once and HandleEvent answered 202; an event for which it
\* returned an error was never sent, is not in the queue, and HandleEvent
\* answered 503; an event whose ProcessEvent is still running was not sent yet;
\* nothing is in the channel that ProcessEvent did not accept.
C19_State ==
  /\ \A n \in accepted : TimesPlaced(n) = 1
  /\ \A n \in refused : TimesPlaced(n) = 0 /\ n \notin Buffered \cup InHand
  /\ accepted \cap refused = {}
  /\ \A h \in Handlers :
       sPc[h] \in {"try", "op"} =>
         (TimesPlaced(sEvent[h].seq) = 0 /\ sEvent[h].seq \notin accepted \cup refused)
  /\ \A i \in 1..Len(enqueued) : enqueued[i] \in accepted
  /\ Buffered \cup InHand \subseteq accepted

\* the step in which ProcessEvent returns: the answer goes with the result
C19_Step ==
  \A h \in Handlers :
    (sPc[h] \in {"try", "op"} /\ sPc'[h] = "idle" /\ ~closed) =>
      /\ sEvent[h].seq \in accepted' \cup refused'
      /\ sEvent[h].seq \in accepted' <=> hStatus'[h] = StatusAccepted
      /\ sEvent[h].seq \in refused' <=> hStatus'[h] = StatusServiceUnavailable

C19_AcceptedIffEnqueued == []C19_State /\ [][C19_Step]_vars

C19_Witness ==
  /\ accepted # {}
  /\ refused # {}
  /\ \E h \in Handlers : hStatus[h] = StatusServiceUnavailable

\* C27 as stated: when ProductService.Stop has returned the queue is closed,
\* and from the call of Stop on no event is enqueued and no request is
\* accepted.
C27_QueueClosedAtStop ==
  /\ [](stopPc = "returned" => closed)
  /\ [][stopPc # "no" => (enqueued' = enqueued /\ accepted' = accepted)]_vars

\* the events that were buffered when the queue was closed, by request number
BufferedAtClose == {atClose[i].seq : i \in 1..Len(atClose)}

Started == \A w \in Launched : sPc[w] # "new"

\* C29 as stated, in the form a finite run refutes: the workers process every
\* event that was buffered when the queue was closed, and a worker exits at a
\* Dequeue that reports closed-and-empty.  Once every worker has exited, no
\* event is processed any more: each event buffered at the close has to have
\* gone through processEvent by then.
C29_WorkersDrainClosedQueue ==
  (closed /\ Started /\ \A w \in Launched : sPc[w] = "exited") =>
    BufferedAtClose \subseteq written \cup dropped

\* a worker exits where the code returns: at the select when the context is
\* cancelled, or at a Dequeue that reports closed-and-empty (at once, or
\* after being parked in it); it never runs again
C29_Step ==
  \A w \in Workers :
    /\ sPc[w] = "exited" => sPc'[w] = "exited"
    /\ (sPc[w] # "exited" /\ sPc'[w] = "exited") =>
         \/ sPc[w] = "select" /\ cancelled
         \/ sPc[w] = "dequeue" /\ closed /\ events = <<>>
         \/ sPc[w] = "woken" /\ closed
    /\ (sPc[w] = "dequeue" /\ closed /\ events = <<>> /\ sPc'[w] # sPc[w]) =>
         sPc'[w] = "exited"
    /\ (sPc[w] = "woken" /\ sPc'[w] # sPc[w]) => sPc'[w] = "exited"

\* C29 (amended): after the queue has been closed every started worker
\* eventually exits, and unless Stop has cancelled the workers every event
\* that was buffered at the close has by then gone through processEvent,
\* which writes it to the store or, when the breaker rejects all its
\* attempts, drops it.  A worker exits permanently at its first Dequeue that
\* reports closed-and-empty, without dequeuing again, or at its select when
\* it finds the context cancelled; the events still buffered then stay in
\* the queue.
C29_WorkersDrainUnlessCancelled ==
  /\ [][C29_Step]_vars
  /\ (closed /\ Started)
       ~> /\ \A w \in Launched : sPc[w] = "exited"
          /\ cancelled \/ BufferedAtClose \subseteq written \cup dropped

\* the queue was closed with events buffered, Stop was not called, the workers
\* have written those events and have all exited
C29_Witness ==
  /\ closed
  /\ ~cancelled
  /\ Len(atClose) >= 2
  /\ BufferedAtClose \subseteq written
  /\ \A w \in Launched : sPc[w] = "exited"

\* a dropped event is nowhere any more: not in the queue, not with a worker,
\* not written, and it was sent into the channel only once
C30_State ==
  \A n \in dropped :
    /\ n \notin Buffered \cup InHand \cup written
    /\ TimesPlaced(n) = 1
    /\ store[ProductOf(n)] # n

\* a worker leaves the retry loop without having run the operation only when
\* its last attempt has failed; it drops the event, and neither the queue nor
\* the store changes
C30_Step ==
  \A w \in Workers :
    (sPc[w] = "try" /\ sPc'[w] # "try" /\ sPc'[w] # "op") =>
      /\ AttemptIsLast(w)
      /\ sPc'[w] = "select"
      /\ dropped' = dropped \cup {sEvent[w].seq}
      /\ events' = events
      /\ enqueued' = enqueued
      /\ store' = store
      /\ written' = written

\* C30: when the last retry attempt for a dequeued event has failed, the
\* worker drops the event: it is not put back in the queue, the store is
\* left as it was, the event is never written later, and the worker returns
\* to the top of its loop, where it dequeues the next event unless the pool
\* has been stopped.
C30_DroppedAfterExhaustion == []C30_State /\ [][C30_Step]_vars

\* a worker has dropped an event and is in Dequeue again
C30_Witness ==
  /\ dropped # {}
  /\ ~cancelled
  /\ \E w \in Workers : sPc[w] \in {"dequeue", "parked"}

\* the processes inside the operation their Execute call wraps
SvcInOperation == {p \in Procs : sPc[p] = "op"}

\* C36: at most one operation wrapped by the service's breaker is in progress
\* at any time, and the process running it holds the breaker's lock: a
\* worker's store update and ProcessEvent's enqueue never overlap.
C36_OneOperationAtATime ==
  /\ Cardinality(SvcInOperation) <= 1
  /\ \A p \in SvcInOperation : mutex = p
  /\ mutex # 0 => mutex \in SvcInOperation

\* a worker updates the store while a ProcessEvent call waits to enter Execute
\* for its enqueue
C36_Witness ==
  /\ \E w \in Workers : sPc[w] = "op"
  /\ \E h \in Handlers : sPc[h] = "try"

\* C35 as stated: GetState, which reads the state under the breaker's lock,
\* never returns HalfOpen: whenever no Execute call holds the lock, the breaker
\* is Closed or Open.
C35_HalfOpenOnlyInsideExecute ==
  mutex = 0 => state \in {"Closed", "Open"}

\* C33 as stated: the store update never fails (UpdateOp always succeeds), so
\* a worker never discards an event it has dequeued, whatever ProcessEvent
\* calls run on the same service: no event is ever dropped by processEvent.
C33_WorkerNeverDiscards ==
  \A w \in Workers :
    (sPc[w] \in {"select", "dequeue", "parked", "woken", "exited"} /\ sEvent[w] # NoProductEvent)
      => sEvent[w].seq \in written

\* the requests made while the queue was open and had free capacity; the one
\* serving goroutine is the only sender and the queue stays open, so the queue
\* has free capacity throughout such a ProcessEvent call
LateEvents == {e \in 1..(nextId - 1) : e > MaxPosts}

LateCallReturns(h) ==
  /\ sPc[h] # "idle"
  /\ sPc'[h] = "idle"
  /\ sEvent[h].seq > MaxPosts

\* C34 (amended): a ProcessEvent call during which the queue is open and has
\* free capacity is rejected only by the circuit breaker, Open since earlier
\* enqueue failures and within its timeout, which rejects every attempt of the
\* call; otherwise the call succeeds and the event is enqueued.
C34_Step ==
  \A h \in Handlers :
    LateCallReturns(h) =>
      \/ /\ sEvent[h].seq \in accepted'
         /\ enqueued' = Append(enqueued, sEvent[h].seq)
         /\ hStatus'[h] = StatusAccepted
      \/ /\ state = "Open"
         /\ sPc[h] = "try"
         /\ sEvent[h].seq \in refused'
         /\ hStatus'[h] = StatusServiceUnavailable
         /\ UNCHANGED <<events, enqueued, accepted>>

StillQueued == {events[i].seq : i \in 1..Len(events)}

FlushesByAddEvent == {i \in 1..Len(flushLog) : flushLog[i].by = "AddEvent"}

RECURSIVE SentBatches(_)
SentBatches(log) ==
  IF log = <<>> THEN <<>>
  ELSE IF log[Len(log)].sent
       THEN Append(SentBatches(SubSeq(log, 1, Len(log) - 1)), log[Len(log)].batch)
       ELSE SentBatches(SubSeq(log, 1, Len(log) - 1))

\* C20 (amended): count the AddEvent calls from a moment the buffer is empty,
\* with no other flush (ticker, Stop, a direct flushBatch call) in between.  A
\* call that brings the
\* count below batchSize flushes nothing and buffers its event; the call that
\* brings it to batchSize flushes once, inside the call: the buffer is empty
\* again and the batch holds exactly the batchSize events in the order they
\* were added.  The batch goes into the flush channel if fewer than 10 batches
\* wait there, and then the handler receives it, after the batches before it;
\* otherwise the call returns ErrBatchProcessorFull and the batch is gone.
C20_State ==
  /\ Len(bpEvents) < batchSize
  /\ bpEvents = sinceEmpty
  /\ Len(flushChan) <= FlushChanSize
  /\ processed \o flushChan = SentBatches(flushLog)
  /\ bpOp.op = "AddEvent" =>
       /\ bpOp.pre = bpOp.preSince
       /\ Len(bpOp.preSince) + 1 < batchSize =>
            /\ bpEvents = Append(bpOp.preSince, bpOp.arg)
            /\ flushLog = bpOp.preLog
            /\ flushChan = bpOp.preChan
            /\ bpOp.res = "nil"
       /\ Len(bpOp.preSince) + 1 = batchSize =>
            /\ bpEvents = <<>>
            /\ bpOp.batch = Append(bpOp.preSince, bpOp.arg)
            /\ Len(flushLog) = Len(bpOp.preLog) + 1
            /\ flushLog[Len(flushLog)].batch = bpOp.batch
            /\ Len(bpOp.preChan) < FlushChanSize =>
                 (bpOp.res = "nil" /\ flushChan = Append(bpOp.preChan, bpOp.batch))
            /\ Len(bpOp.preChan) = FlushChanSize =>
                 (bpOp.res = "ErrBatchProcessorFull" /\ flushChan = bpOp.preChan)

\* the handler is called with the batches in the order the channel took them
C20_Step ==
  processed' # processed =>
    /\ flushChan # <<>>
    /\ processed' = Append(processed, Head(flushChan))
    /\ flushChan' = Tail(flushChan)

C21_NoEmptyBatch ==
  /\ \A i \in 1..Len(flushChan) : Len(flushChan[i]) > 0
  /\ \A i \in 1..Len(processed) : Len(processed[i]) > 0
  /\ \A i \in 1..Len(flushLog) : Len(flushLog[i].batch) > 0
  /\ (bpOp.op \in {"direct", "ticker", "stop"} /\ bpOp.pre = <<>>) =>
       /\ flushChan = bpOp.preChan
       /\ flushLog = bpOp.preLog
       /\ bpEvents = <<>>
       /\ bpOp.res = "nil"

\* flushBatch has just been called directly on an empty buffer
C21_Witness ==
  /\ bpOp.op = "direct"
  /\ bpOp.pre = <<>>
  /\ bpOp.res = "nil"

\* the batches the handler has been invoked with
Delivered == {processed[i] : i \in 1..Len(processed)}

\* C22 as stated: the events Stop finds in the buffer are flushed once and the
\* handler is invoked with them.  The loop returns right after the flush it
\* makes for Stop, and only the loop invokes the handler: once it has exited,
\* every batch flushed for Stop has to have reached the handler already.
C22_StopFlushDelivered ==
  bpLoop = "exited" =>
    \A i \in 1..Len(flushLog) :
      flushLog[i].by = "stop" => flushLog[i].batch \in Delivered

\* the batches waiting in the flush channel
Waiting == {flushChan[i] : i \in 1..Len(flushChan)}

\* C23 as stated: the events the ticker finds in the buffer of a processor
\* that is not stopped are delivered to the handler as one batch.  Only
\* batches in the flush channel reach the handler, so a batch the ticker
\* flushed has to wait there until the handler has it.
C23_TickDelivers ==
  \A i \in 1..Len(flushLog) :
    flushLog[i].by = "ticker" => flushLog[i].batch \in Waiting \cup Delivered

\* a tick that finds 1..batchSize-1 events empties the buffer and makes one
\* batch of them; the batch joins the flush channel unless 10 batches wait
C23_State ==
  (bpOp.op = "ticker" /\ bpOp.pre # <<>>) =>
    /\ Len(bpOp.pre) < batchSize
    /\ bpEvents = <<>>
    /\ bpOp.batch = bpOp.pre
    /\ flushLog = Append(bpOp.preLog,
                         [by |-> "ticker", batch |-> bpOp.pre,
                          sent |-> Len(bpOp.preChan) < FlushChanSize])
    /\ Len(bpOp.preChan) < FlushChanSize =>
         (bpOp.res = "nil" /\ flushChan = Append(bpOp.preChan, bpOp.pre))
    /\ Len(bpOp.preChan) = FlushChanSize =>
         (bpOp.res = "ErrBatchProcessorFull" /\ flushChan = bpOp.preChan)

MaxFlushes == FlushChanSize + MaxLateAdds

\* C23 (amended): if the buffer holds between 1 and batchSize-1 events and
\* the processor is not stopped, the next tick empties the buffer and makes
\* one batch of those events.  If fewer than 10 batches wait in the flush
\* channel, the batch joins them and, as long as the processor is not
\* stopped, is eventually delivered to the handler, with no further AddEvent
\* call; if 10 batches wait, the batch is discarded and never delivered.
C23_TickerFlushDelivered ==
  /\ []C23_State
  /\ \A i \in 1..MaxFlushes :
       (Len(flushLog) >= i /\ flushLog[i].by = "ticker" /\ flushLog[i].sent)
         ~> (Len(flushLog) >= i /\ flushLog[i].batch \in Delivered)
  /\ [](\A i \in 1..Len(flushLog) :
          (flushLog[i].by = "ticker" /\ ~flushLog[i].sent)
            => flushLog[i].batch \notin Waiting \cup Delivered)

\* the handler has a batch of fewer than batchSize events the ticker flushed
C23_Witness ==
  \E i \in 1..Len(flushLog) :
    /\ flushLog[i].by = "ticker"
    /\ Len(flushLog[i].batch) < batchSize
    /\ flushLog[i].batch \in Delivered

\* the events of a sequence of batches, in order
RECURSIVE Flatten(_)
Flatten(batches) ==
  IF batches = <<>> THEN <<>> ELSE Head(batches) \o Flatten(Tail(batches))

\* how often event e occurs in a sequence of events
Occurrences(e, evs) == Cardinality({i \in 1..Len(evs) : evs[i] = e})

\* the events AddEvent has been called with
Added == 1..(bpNextId - 1)

\* the batches a flush dropped because the flush channel was full
RECURSIVE DroppedBatches(_)
DroppedBatches(log) ==
  IF log = <<>> THEN <<>>
  ELSE IF log[Len(log)].sent
       THEN DroppedBatches(SubSeq(log, 1, Len(log) - 1))
       ELSE Append(DroppedBatches(SubSeq(log, 1, Len(log) - 1)), log[Len(log)].batch)

AddEventAlwaysSucceeded ==
  \A i \in 1..Len(flushLog) : flushLog[i].by = "AddEvent" => flushLog[i].sent

\* C24 as stated: while every AddEvent call has returned success on a
\* processor that is not stopped, each added event is delivered exactly once.
\* Only what is buffered or waits in the flush channel can still reach the
\* handler, so each added event has to be, exactly once, in the buffer, in
\* the channel or in a delivered batch.
C24_AddedDeliveredOnce ==
  AddEventAlwaysSucceeded =>
    \A e \in Added :
      Occurrences(e, Flatten(processed) \o Flatten(flushChan) \o bpEvents) = 1

\* every added event is, exactly once, in a delivered batch, in a waiting
\* batch, in the buffer or in a batch dropped at a full flush channel
C24_State ==
  \A e \in Added :
    Occurrences(e, Flatten(processed) \o Flatten(flushChan) \o bpEvents
                     \o Flatten(DroppedBatches(flushLog))) = 1

\* the events in a set of batches
EventsOf(batches) == UNION {{b[j] : j \in 1..Len(b)} : b \in batches}

\* the batches dropped at a full flush channel, as a set
Dropped == {flushLog[i].batch : i \in {j \in 1..Len(flushLog) : ~flushLog[j].sent}}

\* the events of the burst before the first state and of the first n
\* AddEvent calls after it
AddedByCall(n) == 1..(bpNextId - adds + n - 1)

\* C24 (amended): for any interleaving of concurrent AddEvent calls on a
\* processor that is not stopped, every added event outside the batches that
\* a flush (by AddEvent or by the ticker) dropped at a full flush channel is
\* eventually delivered to the handler, and no event is delivered twice: the
\* multiset of events over all delivered batches becomes the multiset of
\* events added less the events of the dropped batches.
C24_AddedDeliveredUnlessDropped ==
  /\ []C24_State
  /\ \A n \in 0..MaxLateAdds :
       (adds >= n)
         ~> (AddedByCall(n) \subseteq EventsOf(Delivered) \cup EventsOf(Dropped))

\* every call has succeeded, at least two events were added, and the handler
\* has all of them
C24_Witness ==
  /\ adds >= 2
  /\ AddEventAlwaysSucceeded
  /\ DroppedBatches(flushLog) = <<>>
  /\ \A e \in Added : Occurrences(e, Flatten(processed)) = 1

\* the last step was a flush of a buffer that held events: AddEvent filled the
\* batch, or the ticker, Stop or a direct call found events
FlushedNonEmpty ==
  \/ bpOp.op = "AddEvent" /\ Len(bpOp.pre) + 1 >= batchSize
  \/ bpOp.op \in {"ticker", "stop", "direct"} /\ bpOp.pre # <<>>

\* C25: a flush that finds the flush channel full (10 batches waiting)
\* returns ErrBatchProcessorFull, and AddEvent returns that error when the
\* flush was its own; the buffer is empty afterwards, the channel is as it
\* was, and the events of the batch are neither in the buffer nor in the
\* channel.  No other call returns the error.
C25_FullChannelDropsBatch ==
  /\ (FlushedNonEmpty /\ Len(bpOp.preChan) = FlushChanSize) =>
       /\ bpOp.res = "ErrBatchProcessorFull"
       /\ bpEvents = <<>>
       /\ flushChan = bpOp.preChan
       /\ bpOp.batch # <<>>
       /\ EventsOf({bpOp.batch}) \cap (EventsOf(Waiting) \cup EventsOf({bpEvents})) = {}
       /\ flushLog = Append(bpOp.preLog,
                            [by |-> bpOp.op, batch |-> bpOp.batch, sent |-> FALSE])
  /\ bpOp.res = "ErrBatchProcessorFull" =>
       (FlushedNonEmpty /\ Len(bpOp.preChan) = FlushChanSize)

\* AddEvent has just returned ErrBatchProcessorFull
C25_Witness ==
  /\ bpOp.op = "AddEvent"
  /\ bpOp.res = "ErrBatchProcessorFull"
  /\ bpOp.batch = Append(bpOp.pre, bpOp.arg)

\* C26: with a handler that returns an error for every batch, AddEvent never
\* returns the handler's error (it returns nil, or ErrBatchProcessorFull when
\* its flush finds 10 batches waiting), a failed invocation leaves the loop
\* running, and every batch that is flushed into the channel after a failed
\* invocation is eventually delivered to the handler.
C26_State ==
  /\ bpLoop = "running"
  /\ bpOp.op = "process" => bpOp.res = "error"
  /\ bpOp.op = "AddEvent" =>
       /\ bpOp.res \in {"nil", "ErrBatchProcessorFull"}
       /\ bpOp.res = "ErrBatchProcessorFull" <=>
            (FlushedNonEmpty /\ Len(bpOp.preChan) = FlushChanSize)

\* the i-th flush has just been made, after the handler has failed, and the
\* channel took its batch
FlushedAfterFailure(i) ==
  /\ processed # <<>>
  /\ bpOp.op \in {"AddEvent", "ticker"}
  /\ Len(flushLog) = i
  /\ Len(bpOp.preLog) = i - 1
  /\ flushLog[i].sent

C26_HandlerErrorSwallowed ==
  /\ []C26_State
  /\ \A i \in 1..MaxFlushes :
       FlushedAfterFailure(i)
         ~> (Len(flushLog) >= i /\ flushLog[i].batch \in Delivered)

\* the flush channel was full at first, so that a later batch could enter it
\* only after a handler invocation, which failed; the handler has been invoked
\* with such a batch
C26_Witness ==
  /\ bpNextId - adds - 1 = FlushChanSize * batchSize
  /\ \E b \in Delivered : b[1] > FlushChanSize * batchSize
  /\ bpOp.op = "process"
  /\ bpOp.res = "error"

\* C31: the handler is never invoked while an invocation of it is in progress;
\* while it runs, the one background loop is inside that invocation, so it
\* makes no other delivery, timer flush or stop flush meanwhile.
C31_OneHandlerAtATime ==
  /\ inHandler <= 1
  /\ inHandler = 1 => bpLoop = LoopDuringHandler
  /\ bpMutex = BatchLoop <=> bpLoop \in {"ticking", "stopping"}

\* the handler runs while the next batch waits in the channel, an AddEvent call
\* holds the lock and Stop has been called
C31_Witness ==
  /\ inHandler = 1
  /\ flushChan # <<>>
  /\ bpMutex \in AddCallers
  /\ stopChan

\* an AddEvent call has been made and has not returned
AddEventPending == AddCallsInProgress # {}

\* the background loop waits for the accumulator's lock
LoopWaitsForLock == bpLoop \in {"tick", "stop"}

\* C39: AddEvent always returns, whatever the handler and the channel do, and
\* neither an AddEvent caller nor the background loop waits forever for the
\* accumulator's lock.
C39_AddEventReturns ==
  /\ \A c \in AddCallers : (addPc[c] # "idle") ~> (addPc[c] = "idle")
  /\ LoopWaitsForLock ~> (bpMutex = BatchLoop)

\* AddEvent has returned ErrBatchProcessorFull while the handler was running
\* and the channel was full
C39_Witness ==
  /\ bpOp.op = "AddEvent"
  /\ bpOp.res = "ErrBatchProcessorFull"
  /\ inHandler = 1
  /\ Len(flushChan) = FlushChanSize
  /\ AddCallsInProgress = {}

\* C40: for batchSize >= 1 the buffer never holds more than batchSize events,
\* not even between AddEvent's append and its flush, and it holds fewer than
\* batchSize events whenever the accumulator's lock is free.
C40_BufferBelowBatchSize ==
  /\ Len(bpEvents) <= batchSize
  /\ bpOp.op = "AddEvent" => Len(bpOp.pre) + 1 <= batchSize
  /\ bpMutex = MutexFree => Len(bpEvents) < batchSize

\* an AddEvent call has filled the buffer to batchSize > 1 and flushed it, and
\* the lock is free again
C40_Witness ==
  /\ bpOp.op = "AddEvent"
  /\ Len(bpOp.pre) + 1 = batchSize
  /\ batchSize > 1
  /\ bpEvents = <<>>
  /\ bpMutex = MutexFree

\* AddEvent appends the events 1, 2, ... in this order: a sequence of events is
\* a subsequence of the AddEvent order iff it is strictly increasing
InAddEventOrder(evs) ==
  /\ \A i \in 1..Len(evs) : evs[i] \in Added
  /\ \A i, j \in 1..Len(evs) : i < j => evs[i] < evs[j]

\* C32: each delivered batch lists its events in the order AddEvent appended
\* them, the batches reach the handler in the order they were flushed, and the
\* concatenation of all delivered batches is a subsequence of the AddEvent
\* order.
C32_OrderPreserved ==
  /\ \A i \in 1..Len(processed) : InAddEventOrder(processed[i])
  /\ processed = SubSeq(SentBatches(flushLog), 1, Len(processed))
  /\ InAddEventOrder(Flatten(processed))

\* the handler has had three batches, flushed by AddEvent and by the ticker,
\* one of them holding several events
C32_Witness ==
  /\ Len(processed) >= 3
  /\ \E i \in 1..Len(processed) : Len(processed[i]) > 1
  /\ \A by \in {"AddEvent", "ticker"} :
       \E i \in 1..Len(flushLog) :
         flushLog[i].by = by /\ flushLog[i].sent /\ flushLog[i].batch \in Delivered

====
